---- MODULE Spec2Model ----
(***************************************************************************)
(* The chat-completions handler of the 0G proxy (src/src/routes/chat.ts,   *)
(* second revision in the file, lines 155-490), the provider resolver it   *)
(* calls (BrokerManager.getProvider) and the Translator functions it uses. *)
(*                                                                         *)
(* Upstream text is a sequence of atomic fragments.  A fragment is a       *)
(* record [pre, body]: pre is the literal line prefix the fragment starts  *)
(* with ("data: ", ":" or none), body the text after it.  A read chunk is  *)
(* a sequence of fragments, so a line can be split across chunks at every  *)
(* fragment boundary.                                                      *)
(***************************************************************************)
EXTENDS Integers, Sequences, FiniteSets, TLC

\* ------------------------------------------------------------------ bounds
\* Total number of fragments the upstream body delivers over all its chunks.
MaxStreamLen == 4
\* The same, for the specification the liveness claims are checked under.
MaxLiveStreamLen == 2

\* ------------------------------------------------------------ text pieces
Undefined == "undefined"
Null == "null"

LF == [pre |-> "", body |-> "\\n"]
CR == [pre |-> "", body |-> "\\r"]
DataLineOf(payload) == [pre |-> "data: ", body |-> payload]

\* JSON texts the upstream may send as the payload of a data line
DonePayload == "[DONE]"
JsonA == "{choices:[{delta:{content:a}}]}"
JsonB == "{choices:[{delta:{content:b},finish_reason:stop}]}"
JsonNullChoice == "{choices:[null]}"
JsonAB == "{choices:[{message:{content:a b},finish_reason:stop}]}"
JsonDoneField == "{done:true,choices:[{delta:{content:c}}]}"

DataDone == DataLineOf(DonePayload)
DataA == DataLineOf(JsonA)
DataB == DataLineOf(JsonB)
DataNullChoice == DataLineOf(JsonNullChoice)
\* a complete chat-completion document sent without event-stream framing
PlainDoc == [pre |-> "", body |-> JsonAB]

IsWhitespace(f) == f \in {LF, CR}

\* String.prototype.trim on a line of fragments
RECURSIVE TrimLeft(_)
TrimLeft(line) ==
  IF line # <<>> /\ IsWhitespace(Head(line)) THEN TrimLeft(Tail(line)) ELSE line

RECURSIVE TrimRight(_)
TrimRight(line) ==
  IF line # <<>> /\ IsWhitespace(line[Len(line)])
    THEN TrimRight(SubSeq(line, 1, Len(line) - 1))
    ELSE line

Trim(line) == TrimRight(TrimLeft(line))

\* buffer.split("\n"): the pieces between line feeds, the last one being the
\* text after the last line feed (empty when the text ends with a line feed)
RECURSIVE SplitLF(_, _)
SplitLF(text, cur) ==
  IF text = <<>> THEN <<cur>>
  ELSE IF Head(text) = LF THEN <<cur>> \o SplitLF(Tail(text), <<>>)
  ELSE SplitLF(Tail(text), Append(cur, Head(text)))

Split(text) == SplitLF(text, <<>>)

\* ------------------------------------------------------------- JSON values
\* A delta object: present is FALSE for a missing (undefined) delta; an
\* absent field of a present delta is Undefined.
Delta(role, content) == [present |-> TRUE, role |-> role, content |-> content]
NoDelta == [present |-> FALSE, role |-> Undefined, content |-> Undefined]
EmptyDelta == Delta(Undefined, Undefined)

\* A parsed upstream JSON value, reduced to what the handler and the
\* translator read from it.  choices is Undefined, "empty", "null0" (an array
\* whose first element is null) or "object0"; the c0_ fields are those of
\* choices[0].  value is the text of a JSON string.  JsonBase is {}.
JsonBase ==
  [typeof |-> "object", value |-> Undefined, done |-> FALSE,
   choices |-> Undefined, c0_delta |-> NoDelta, c0_finish_reason |-> Undefined,
   c0_message_content |-> Undefined, c0_text |-> Undefined,
   c0_tool_calls |-> Undefined,
   delta |-> NoDelta, finish_reason |-> Undefined, content |-> Undefined,
   response |-> Undefined, id |-> Undefined, created |-> Undefined]

NullValue == [JsonBase EXCEPT !.typeof = "null"]

\* what parseSSELine returns for the [DONE] payload: { done: true }
DoneMarker == [JsonBase EXCEPT !.done = TRUE]

\* the outcome of JSON.parse: the value, or threw
Parsed(v) == [threw |-> FALSE, value |-> v]
SyntaxError == [threw |-> TRUE, value |-> NullValue]

\* JSON.parse
JsonParse(text) ==
  CASE text = JsonA ->
         Parsed([JsonBase EXCEPT !.choices = "object0",
                                 !.c0_delta = Delta(Undefined, "a")])
    [] text = JsonB ->
         Parsed([JsonBase EXCEPT !.choices = "object0",
                                 !.c0_delta = Delta(Undefined, "b"),
                                 !.c0_finish_reason = "stop"])
    [] text = JsonNullChoice ->
         Parsed([JsonBase EXCEPT !.choices = "null0"])
    [] text = JsonAB ->
         Parsed([JsonBase EXCEPT !.choices = "object0",
                                 !.c0_message_content = "a b",
                                 !.c0_finish_reason = "stop"])
    [] text = JsonDoneField ->
         Parsed([JsonBase EXCEPT !.done = TRUE, !.choices = "object0",
                                 !.c0_delta = Delta(Undefined, "c")])
    [] text = "null" -> Parsed(NullValue)
    [] OTHER -> SyntaxError

\* JavaScript truthiness of a parsed value
Truthy(v) == v.typeof \in {"object", "string"}

\* ------------------------------------------------------------- Translator
\* The text of a payload spread over fragments.  The fragments are split
\* between JSON tokens, where JSON.parse skips white space.
RECURSIVE PayloadText(_)
PayloadText(fragments) ==
  IF fragments = <<>> THEN ""
  ELSE IF IsWhitespace(Head(fragments)) THEN PayloadText(Tail(fragments))
  ELSE Head(fragments).pre \o Head(fragments).body \o PayloadText(Tail(fragments))

\* ParseSSELine without the test for the "data: " prefix
ParseSSELineAnyPrefix(line) ==
  IF line # <<>>
    THEN LET data == Trim(<<[pre |-> "", body |-> line[1].body]>> \o Tail(line))
         IN  IF data = <<[pre |-> "", body |-> DonePayload]>> THEN DoneMarker
             ELSE LET p == JsonParse(PayloadText(data))
                  IN  IF p.threw THEN NullValue ELSE p.value
    ELSE NullValue

\* Translator.parseSSELine: line.startsWith('data: '), substring(6).trim(),
\* the [DONE] test, and JSON.parse inside try/catch
ParseSSELine(line) ==
  IF line # <<>> /\ line[1].pre = "data: "
    THEN LET data == Trim(<<[pre |-> "", body |-> line[1].body]>> \o Tail(line))
         IN  IF data = <<[pre |-> "", body |-> DonePayload]>> THEN DoneMarker
             ELSE LET p == JsonParse(PayloadText(data))
                  IN  IF p.threw THEN NullValue ELSE p.value
    ELSE NullValue

\* an OpenAIStreamChunk
StreamChunk(id, created, model, delta, finishReason) ==
  [id |-> id, object |-> "chat.completion.chunk", created |-> created,
   model |-> model, delta |-> delta, finish_reason |-> finishReason]

NoChunk == StreamChunk(Undefined, Undefined, Undefined, NoDelta, Undefined)

OrElse(v, default) == IF v = Undefined THEN default ELSE v

\* ZgStreamChunkToOpenAI probing the top-level delta before the choices
ZgStreamChunkToOpenAITopLevelFirst(zgChunk, model, id, created) ==
  LET mk(delta, finishReason) ==
        [threw |-> FALSE,
         chunk |-> StreamChunk(OrElse(zgChunk.id, id), OrElse(zgChunk.created, created),
                               model, delta, finishReason)]
  IN  IF zgChunk.delta.present
        THEN mk(zgChunk.delta, OrElse(zgChunk.finish_reason, Null))
      ELSE IF zgChunk.choices \notin {Undefined, "empty"}
        THEN IF zgChunk.choices = "null0"
               THEN [threw |-> TRUE, chunk |-> NoChunk]
               ELSE mk(IF zgChunk.c0_delta.present THEN zgChunk.c0_delta ELSE EmptyDelta,
                       OrElse(zgChunk.c0_finish_reason, Null))
      ELSE IF zgChunk.content # Undefined
        THEN mk(Delta(Undefined, zgChunk.content), Null)
      ELSE IF zgChunk.typeof = "string"
        THEN mk(Delta(Undefined, zgChunk.value), Null)
      ELSE mk(EmptyDelta, Null)

\* Translator.zgStreamChunkToOpenAI: the chunk, or threw (a TypeError on
\* reading a property of a null choices[0])
ZgStreamChunkToOpenAI(zgChunk, model, id, created) ==
  LET mk(delta, finishReason) ==
        [threw |-> FALSE,
         chunk |-> StreamChunk(OrElse(zgChunk.id, id), OrElse(zgChunk.created, created),
                               model, delta, finishReason)]
  IN  IF zgChunk.choices \notin {Undefined, "empty"}
        THEN IF zgChunk.choices = "null0"
               THEN [threw |-> TRUE, chunk |-> NoChunk]
               ELSE mk(IF zgChunk.c0_delta.present THEN zgChunk.c0_delta ELSE EmptyDelta,
                       OrElse(zgChunk.c0_finish_reason, Null))
      ELSE IF zgChunk.delta.present
        THEN mk(zgChunk.delta, OrElse(zgChunk.finish_reason, Null))
      ELSE IF zgChunk.content # Undefined
        THEN mk(Delta(Undefined, zgChunk.content), Null)
      ELSE IF zgChunk.typeof = "string"
        THEN mk(Delta(Undefined, zgChunk.value), Null)
      ELSE mk(EmptyDelta, Null)

\* Translator.formatSSE and Translator.formatSSEDone: one write to the client
FormatSSE(chunk) == [event |-> "chunk", chunk |-> chunk]
FormatSSEDone == [event |-> "[DONE]", chunk |-> NoChunk]

\* ------------------------------------------------- the streaming read loop
CompletionId == "chatcmpl-generated"
Created == "now"

\* The body of `for (const line of lines)`: the frames written for the
\* complete lines of one chunk, the trimmed lines passed to parseSSELine, and
\* whether the translation threw.
RECURSIVE LineLoop(_, _, _, _)
LineLoop(lines, model, acc, fed) ==
  IF lines = <<>> THEN [writes |-> acc, parsed |-> fed, threw |-> FALSE]
  ELSE LET trimmedLine == Trim(Head(lines))
       IN  IF trimmedLine = <<>> \/ trimmedLine[1].pre = ":"
             THEN LineLoop(Tail(lines), model, acc, fed)
           ELSE LET data == ParseSSELine(trimmedLine)
                    fedNow == Append(fed, trimmedLine)
                IN  IF ~Truthy(data) THEN LineLoop(Tail(lines), model, acc, fedNow)
                    ELSE IF data.done
                      THEN [writes |-> Append(acc, FormatSSEDone), parsed |-> fedNow,
                            threw |-> FALSE]
                    ELSE LET r == ZgStreamChunkToOpenAI(data, model, CompletionId, Created)
                         IN  IF r.threw
                               THEN [writes |-> acc, parsed |-> fedNow, threw |-> TRUE]
                               ELSE LineLoop(Tail(lines), model,
                                             Append(acc, FormatSSE(r.chunk)), fedNow)

\* OnChunk passing every piece of the split to the line loop, the text
\* after the last line feed included
OnChunkParsesFragment(buf, chunk, model) ==
  LET lines == Split(buf \o chunk)
      r == LineLoop(lines, model, <<>>, <<>>)
  IN  [buffer |-> lines[Len(lines)], writes |-> r.writes, parsed |-> r.parsed,
       threw |-> r.threw]

\* One iteration of `for await (const chunk of reader)`: the new carry-over
\* buffer, the frames written, the lines parsed and whether the iteration threw.
OnChunk(buf, chunk, model) ==
  LET lines == Split(buf \o chunk)
      r == LineLoop(SubSeq(lines, 1, Len(lines) - 1), model, <<>>, <<>>)
  IN  [buffer |-> lines[Len(lines)], writes |-> r.writes, parsed |-> r.parsed,
       threw |-> r.threw]

\* -------------------------------------------------------- provider resolver
\* A ProviderInfo; NoProvider is the null cache and the unset local.
ProviderInfo(address, endpoint, model) ==
  [address |-> address, endpoint |-> endpoint, model |-> model]
NoProvider == ProviderInfo(Undefined, Undefined, Undefined)

AddressA == "0xA"
AddressB == "0xB"
AddressC == "0xC"
ProviderAddresses == {AddressA, AddressB}

\* String.prototype.startsWith('0x') and toLowerCase on the identifiers used
StartsWith0x(id) == id \in {"0xA", "0xB", "0xC", "0xa", "0xb", "0xc"}
ToLowerCase(s) ==
  CASE s = "0xA" -> "0xa" [] s = "0xB" -> "0xb" [] s = "0xC" -> "0xc" [] OTHER -> s

\* broker.inference.getServiceMetadata: what the network reports for an address
ServiceMetadata(address) ==
  CASE ToLowerCase(address) = "0xa" ->
         [endpoint |-> "https://a.example", model |-> "model-a"]
    [] ToLowerCase(address) = "0xc" ->
         [endpoint |-> "https://c.example", model |-> "model-a"]
    [] OTHER -> [endpoint |-> "https://b.example", model |-> "model-b"]

ServiceOf(address) == [provider |-> address, model |-> ServiceMetadata(address).model]

\* broker.inference.listService: the enumerations the network may return.
\* In the last one the service of "0xB" declares the model under a name that
\* differs from the model getServiceMetadata reports for "0xB".
ServiceLists ==
  {<<>>, <<ServiceOf(AddressA)>>, <<ServiceOf(AddressB), ServiceOf(AddressA)>>,
   <<ServiceOf(AddressB), ServiceOf(AddressC), ServiceOf(AddressA)>>,
   <<[provider |-> AddressB, model |-> "model-alias"]>>}

\* CacheHit comparing the addresses as they are spelled
CacheHitCaseSensitive(cache, id) ==
  /\ cache # NoProvider
  /\ IF StartsWith0x(id) THEN cache.address = id ELSE cache.model = id

\* CacheHit of a getProvider that never consults the cache
CacheHitNever(cache, id) == FALSE

\* broker.inference.userAcknowledged: the network's answer for an address,
\* whatever the case it is spelled in
IsAcknowledged(address, held) ==
  \E a \in held : ToLowerCase(a) = ToLowerCase(address)

\* the cache test of getProvider, for an address and for a model name
CacheHit(cache, id) ==
  /\ cache # NoProvider
  /\ IF StartsWith0x(id)
       THEN ToLowerCase(cache.address) = ToLowerCase(id)
       ELSE cache.model = id

\* FindService taking the last service that declares the model
FindLastService(services, model) ==
  IF \E i \in 1..Len(services) : services[i].model = model
    THEN CHOOSE i \in 1..Len(services) :
           /\ services[i].model = model
           /\ \A j \in (i + 1)..Len(services) : services[j].model # model
    ELSE 0

\* services.find((s) => s.model === model): index of the first match, 0 if none
FindService(services, model) ==
  IF \E i \in 1..Len(services) : services[i].model = model
    THEN CHOOSE i \in 1..Len(services) :
           /\ services[i].model = model
           /\ \A j \in 1..(i - 1) : services[j].model # model
    ELSE 0

\* ------------------------------------------------------------ error values
ErrNoProviders == "No providers available"
ErrNoProviderForModel == "No provider found for model"
ErrNetwork == "network failure"
ErrNoMessage == ""
ErrNullProperty == "Cannot read properties of null"
ErrJsonSyntax == "Unexpected token in JSON"

\* what a failing external call (SDK capability, fetch, body read) rejects with
ExternalErrors == {ErrNetwork, ErrNoMessage}

\* error.message?.includes(...)
IncludesNoProvider(message) == message \in {ErrNoProviders, ErrNoProviderForModel}
IncludesBrokerNotInitialized(message) == message = "Broker not initialized"

\* ------------------------------------------------------- client response
ErrorDoc(message, type, code) ==
  [object |-> "error", message |-> message, type |-> type, code |-> code]
NoBody == [object |-> "none"]

BadRequest == 400
PaymentRequired == 402
InternalServerError == 500
ServiceUnavailable == 503

\* closed: the client has closed the connection the response is written to
FreshResponse ==
  [statusCode |-> 200, contentType |-> Undefined, headersSent |-> FALSE,
   body |-> NoBody, ended |-> 0, closed |-> FALSE]

\* res.status(status).json(doc)
ResJson(r, status, doc) ==
  [r EXCEPT !.statusCode = status, !.contentType = "application/json",
            !.headersSent = TRUE, !.body = doc, !.ended = @ + 1]

\* res.end()
ResEnd(r) == [r EXCEPT !.headersSent = TRUE, !.ended = @ + 1]

\* OuterCatch without the test for "No provider": the generic answer
OuterCatchGeneric(r, message) ==
  IF IncludesBrokerNotInitialized(message)
    THEN ResJson(r, InternalServerError,
                 ErrorDoc("Service initialization error", "internal_error",
                          "broker_not_initialized"))
  ELSE ResJson(r, InternalServerError,
               ErrorDoc(IF message = "" THEN "Internal server error" ELSE message,
                        "internal_error", "internal_error"))

\* the catch block of the route handler (chat.ts 198-232)
OuterCatch(r, message) ==
  IF IncludesNoProvider(message)
    THEN ResJson(r, ServiceUnavailable,
                 ErrorDoc(message, "service_unavailable", "no_provider_available"))
  ELSE IF IncludesBrokerNotInitialized(message)
    THEN ResJson(r, InternalServerError,
                 ErrorDoc("Service initialization error", "internal_error",
                          "broker_not_initialized"))
  ELSE ResJson(r, InternalServerError,
               ErrorDoc(IF message = "" THEN "Internal server error" ELSE message,
                        "internal_error", "internal_error"))

\* StreamCatch without the headersSent test: a JSON error whatever was written
StreamCatchAlwaysJson(r, message) ==
  ResJson(r, InternalServerError,
          ErrorDoc(IF message = "" THEN "Error processing stream" ELSE message,
                   "internal_error", "streaming_error"))

\* StreamCatch whose else branch forgets res.end()
StreamCatchNoEnd(r, message) ==
  IF ~r.headersSent
    THEN ResJson(r, InternalServerError,
                 ErrorDoc(IF message = "" THEN "Error processing stream" ELSE message,
                          "internal_error", "streaming_error"))
    ELSE r

\* the catch block of the streaming read loop (chat.ts 471-487)
StreamCatch(r, message) ==
  IF ~r.headersSent
    THEN ResJson(r, InternalServerError,
                 ErrorDoc(IF message = "" THEN "Error processing stream" ELSE message,
                          "internal_error", "streaming_error"))
    ELSE ResEnd(r)

\* ------------------------------------------------- requests and documents
\* req.body.messages: missing, a non-array value, or an array of messages
\* An OpenAIChatMessage; a field that is not set is Undefined.
ChatMessage(role, content, toolCalls, toolCallId, name) ==
  [role |-> role, content |-> content, tool_calls |-> toolCalls,
   tool_call_id |-> toolCallId, name |-> name]
Message(role, content) == ChatMessage(role, content, Undefined, Undefined, Undefined)
MessagesMissing == [kind |-> "undefined", items |-> <<>>]
MessagesNotArray == [kind |-> "string", items |-> <<>>]
MessagesArray == [kind |-> "array", items |-> <<Message("user", "hi")>>]

\* an OpenAIChatRequest; an optional field that is not set is Undefined
ChatRequest(messages, model, stream) ==
  [messages |-> messages, model |-> model, stream |-> stream,
   temperature |-> Undefined, max_tokens |-> Undefined, top_p |-> Undefined,
   frequency_penalty |-> Undefined, presence_penalty |-> Undefined,
   stop |-> Undefined, tools |-> Undefined, tool_choice |-> Undefined]

NoRequest == ChatRequest(MessagesMissing, Undefined, FALSE)

\* the model identifiers a client may send: none, empty, an address, a name
RequestModels == {Undefined, "", AddressA, AddressB, "model-a", "model-x"}

Requests ==
  { ChatRequest(m, id, st) :
      m \in {MessagesMissing, MessagesNotArray, MessagesArray},
      id \in RequestModels, st \in BOOLEAN }

\* JavaScript truthiness of a string, null or undefined
IsTruthy(v) == v \notin {Undefined, Null, ""}

\* a message of the ZGChatRequest: role and content, and the tool fields
\* spread in when truthy (translator.ts 521-527)
ZgMessage(msg) ==
  [role |-> msg.role, content |-> msg.content]
    @@ [f \in {g \in {"tool_calls", "tool_call_id", "name"} : IsTruthy(msg[g])} |-> msg[f]]

\* Translator.openAIToZG: the fields assigned when `!== undefined`
\* (translator.ts 531-549); stream is set in every request of the model
OpenAIToZG(openAIRequest) ==
  [messages |-> [i \in 1..Len(openAIRequest.messages.items) |->
                   ZgMessage(openAIRequest.messages.items[i])],
   model |-> openAIRequest.model,
   stream |-> openAIRequest.stream]
    @@ [f \in {g \in {"temperature", "max_tokens", "tools", "tool_choice"} :
                  openAIRequest[g] # Undefined} |-> openAIRequest[f]]

\* Translator.estimateTokens: Math.ceil(text.length / 4)
TokenDivisor == 4
\* EstimateTokens rounding down
EstimateTokensFloor(text) == Len(text) \div TokenDivisor

EstimateTokens(text) == (Len(text) + TokenDivisor - 1) \div TokenDivisor

\* requestMessages.map((m) => m.content || "").join(" ")
RECURSIVE JoinContents(_)
JoinContents(items) ==
  IF items = <<>> THEN ""
  ELSE LET c == IF Head(items).content = Null THEN "" ELSE Head(items).content
       IN  IF Len(items) = 1 THEN c ELSE c \o " " \o JoinContents(Tail(items))

\* ZgToOpenAI probing the top-level `response` field before the choices
ZgToOpenAIResponseFirst(zgResponse, model, requestMessages) ==
  IF zgResponse.typeof = "null" \/ zgResponse.choices = "null0"
    THEN [threw |-> TRUE, doc |-> NoBody]
    ELSE
      LET inChoices == zgResponse.choices \notin {Undefined, "empty"}
          first ==
            IF zgResponse.c0_message_content \notin {Undefined, Null, ""}
              THEN zgResponse.c0_message_content
            ELSE IF zgResponse.c0_text \notin {Undefined, ""}
              THEN zgResponse.c0_text
            ELSE ""
          toolCalls == IF inChoices THEN zgResponse.c0_tool_calls ELSE Undefined
          content ==
            IF zgResponse.response \notin {Undefined, ""} THEN zgResponse.response
            ELSE IF inChoices
              THEN IF toolCalls # Undefined /\ first = "" THEN Null ELSE first
            ELSE IF zgResponse.content \notin {Undefined, ""} THEN zgResponse.content
            ELSE IF zgResponse.typeof = "string" THEN zgResponse.value
            ELSE ""
          finishReason ==
            IF inChoices THEN OrElse(zgResponse.c0_finish_reason, "stop") ELSE "stop"
          promptTokens == EstimateTokens(JoinContents(requestMessages))
          completionTokens ==
            EstimateTokens(IF content = Null THEN "" ELSE content)
              + (IF toolCalls # Undefined THEN EstimateTokens(toolCalls) ELSE 0)
      IN  [threw |-> FALSE,
           doc |-> [object |-> "chat.completion",
                    id |-> OrElse(zgResponse.id, CompletionId),
                    model |-> model, role |-> "assistant",
                    content |-> content, tool_calls |-> toolCalls,
                    finish_reason |-> finishReason,
                    prompt_tokens |-> promptTokens,
                    completion_tokens |-> completionTokens,
                    total_tokens |-> promptTokens + completionTokens]]

\* Translator.zgToOpenAI: the completion document, or threw (a TypeError on
\* reading a property of a null payload or of a null choices[0])
ZgToOpenAI(zgResponse, model, requestMessages) ==
  IF zgResponse.typeof = "null" \/ zgResponse.choices = "null0"
    THEN [threw |-> TRUE, doc |-> NoBody]
    ELSE
      LET inChoices == zgResponse.choices \notin {Undefined, "empty"}
          first ==
            IF zgResponse.c0_message_content \notin {Undefined, Null, ""}
              THEN zgResponse.c0_message_content
            ELSE IF zgResponse.c0_text \notin {Undefined, ""}
              THEN zgResponse.c0_text
            ELSE ""
          toolCalls == IF inChoices THEN zgResponse.c0_tool_calls ELSE Undefined
          content ==
            IF inChoices
              THEN IF toolCalls # Undefined /\ first = "" THEN Null ELSE first
            ELSE IF zgResponse.response \notin {Undefined, ""} THEN zgResponse.response
            ELSE IF zgResponse.content \notin {Undefined, ""} THEN zgResponse.content
            ELSE IF zgResponse.typeof = "string" THEN zgResponse.value
            ELSE ""
          finishReason ==
            IF inChoices THEN OrElse(zgResponse.c0_finish_reason, "stop") ELSE "stop"
          promptTokens == EstimateTokens(JoinContents(requestMessages))
          completionTokens ==
            EstimateTokens(IF content = Null THEN "" ELSE content)
              + (IF toolCalls # Undefined THEN EstimateTokens(toolCalls) ELSE 0)
      IN  [threw |-> FALSE,
           doc |-> [object |-> "chat.completion",
                    id |-> OrElse(zgResponse.id, CompletionId),
                    model |-> model, role |-> "assistant",
                    content |-> content, tool_calls |-> toolCalls,
                    finish_reason |-> finishReason,
                    prompt_tokens |-> promptTokens,
                    completion_tokens |-> completionTokens,
                    total_tokens |-> promptTokens + completionTokens]]

\* ------------------------------------------------------- upstream responses
EventStream == "text/event-stream"
ApplicationJson == "application/json"

\* what fetch resolves with: the status line, the declared content type and
\* whether response.body is a stream or null
UpstreamResponse(status, contentType, hasBody) ==
  [status |-> status, contentType |-> contentType, hasBody |-> hasBody]
NoUpstream == UpstreamResponse(0, Undefined, FALSE)

\* response.ok
Ok(response) == response.status >= 200 /\ response.status <= 299

UpstreamStatuses == {200, PaymentRequired, InternalServerError, 502}

UpstreamResponses ==
  { UpstreamResponse(st, ct, hb) :
      st \in UpstreamStatuses, ct \in {EventStream, ApplicationJson}, hb \in BOOLEAN }

\* the body texts response.text() may deliver for a non-success response
ErrorTexts == {"", "quota exceeded"}

\* the body texts response.json() may have to parse
JsonBodies == {JsonAB, "null", "<html>"}

\* the fragments a body of each declared content type is made of
Alphabet(contentType) ==
  IF contentType = EventStream
    THEN {LF, DataDone, DataA, DataB, DataNullChoice}
    ELSE {PlainDoc}

\* the non-empty chunks of at most n fragments
Chunks(contentType, n) ==
  UNION { [1..k -> Alphabet(contentType)] : k \in 1..n }

\* ------------------------------------------------------------------- state
VARIABLES
  pc,            \* where the handler of the request is suspended
  req,           \* openAIRequest, the request body
  target,        \* getProvider: the address being acknowledged and fetched
  provider,      \* the ProviderInfo getProvider returned to the handler
  providerCache, \* BrokerManager.providerCache
  acknowledged,  \* the addresses the network holds an acknowledgment for
  calls,         \* the external calls made for the request, in order
  response,      \* what fetch resolved with
  res,           \* the client response
  written,       \* the frames written with res.write, in order
  buffer,        \* the carry-over buffer of the read loop
  received,      \* the upstream body text delivered so far
  exitPath       \* the return or catch through which the handler finished

\* getProvider on its own, called by several requests at once
VARIABLES
  resolutions,   \* each caller's call of getProvider: where it is suspended
  trace          \* the calls, external calls, returns and throws, in order

resolverVars == <<resolutions, trace>>

\* the read loop's calls of Translator.parseSSELine, and the translator's
\* functions applied on their own
VARIABLES
  parsed,        \* the lines the read loop passed to parseSSELine, in order
  translation    \* the last application of a function of the translator

\* the middleware in front of the router
VARIABLES
  authorization  \* req.headers.authorization of the request

vars == <<pc, req, target, provider, providerCache, acknowledged, calls,
          response, res, written, buffer, received, exitPath, resolverVars,
          parsed, translation, authorization>>

\* the variables of the handler that getProvider does not touch
handlerVars == <<pc, req, target, provider, calls, response, res, written, buffer,
                 received, exitPath, parsed, authorization>>

\* an application of a function of the translator to an input
Translation(fn, input, output) == [fn |-> fn, input |-> input, output |-> output]
NoTranslation == Translation("none", Undefined, Undefined)

Call(op, arg) == [op |-> op, arg |-> arg, body |-> NoBody]

CountCalls(op) == Cardinality({i \in 1..Len(calls) : calls[i].op = op})

\* the callers of getProvider that may be in flight at once, and how many
\* calls of getProvider a behaviour follows
Resolvers == {1, 2}
MaxResolutions == 2

\* the identifiers getProvider is called with: addresses as the network spells
\* them and in lower case, a model that is served, one that is not, and one
\* that is served by a provider whose metadata reports another model id
Identifiers == {AddressA, "0xa", AddressB, "model-a", "model-x", "model-alias"}

\* one call of getProvider: the await it is suspended at, its argument, the
\* address it acknowledges and fetches, and the ProviderInfo it returned
Resolution(at, id, address, result) ==
  [pc |-> at, id |-> id, target |-> address, result |-> result]
NotCalled == Resolution("idle", Undefined, Undefined, NoProvider)

\* an entry of the trace: a call of getProvider or of a capability of the
\* broker with its argument, the answer of the acknowledgment query or of the
\* enumeration, or the return or throw of getProvider with its value
Event(event, resolver, id, value) ==
  [event |-> event, resolver |-> resolver, id |-> id, value |-> value]

\* AUTH_TOKEN, and the Authorization headers a client may send: none, empty,
\* the exact one, another token, another scheme or case, no scheme, no
\* token, two spaces, a third part
AuthToken == "secret"
Headers ==
  {Undefined, "", "Bearer secret", "Bearer wrong", "bearer secret", "Basic secret",
   "secret", "Bearer", "Bearer  secret", "Bearer secret extra"}

\* authHeader.split(' ')
SplitOnSpace(header) ==
  CASE header = "" -> <<"">>
    [] header = "Bearer secret" -> <<"Bearer", "secret">>
    [] header = "Bearer wrong" -> <<"Bearer", "wrong">>
    [] header = "bearer secret" -> <<"bearer", "secret">>
    [] header = "Basic secret" -> <<"Basic", "secret">>
    [] header = "secret" -> <<"secret">>
    [] header = "Bearer" -> <<"Bearer">>
    [] header = "Bearer  secret" -> <<"Bearer", "", "secret">>
    [] header = "Bearer secret extra" -> <<"Bearer", "secret", "extra">>

\* AuthMiddleware rejecting a header for its format only
AuthMiddlewareAnyToken(authHeader, authToken) ==
  IF authHeader \in {Undefined, ""} THEN "missing_authorization"
  ELSE LET parts == SplitOnSpace(authHeader)
       IN  IF Len(parts) # 2 \/ parts[1] # "Bearer" THEN "invalid_authorization_format"
           ELSE "next"

\* the middleware createAuthMiddleware(authToken) returns: the code of the
\* 401 answer, or "next" when the request is passed on (part_000 8-54)
AuthMiddleware(authHeader, authToken) ==
  IF authHeader \in {Undefined, ""} THEN "missing_authorization"
  ELSE LET parts == SplitOnSpace(authHeader)
       IN  IF Len(parts) # 2 \/ parts[1] # "Bearer" THEN "invalid_authorization_format"
           ELSE IF parts[2] # authToken THEN "invalid_token"
           ELSE "next"

\* The server listens once the broker is initialised.  The cache holds nothing
\* or the ProviderInfo of an earlier resolution, whose address is acknowledged.
\* The request carries one of the headers.
InitWith(headers) ==
  /\ authorization \in headers
  /\ pc = "idle"
  /\ req = NoRequest
  /\ target = Undefined
  /\ provider = NoProvider
  /\ providerCache \in
       {NoProvider} \cup
       { ProviderInfo(a, ServiceMetadata(a).endpoint, ServiceMetadata(a).model) :
           a \in ProviderAddresses }
  /\ acknowledged \in
       { S \in SUBSET ProviderAddresses :
           providerCache # NoProvider => providerCache.address \in S }
  /\ calls = <<>>
  /\ response = NoUpstream
  /\ res = FreshResponse
  /\ written = <<>>
  /\ buffer = <<>>
  /\ received = <<>>
  /\ exitPath = "none"
  /\ resolutions = [c \in Resolvers |-> NotCalled]
  /\ trace = <<>>
  /\ parsed = <<>>
  /\ translation = NoTranslation

\* the request the router handles has passed the middleware
Init == InitWith({"Bearer " \o AuthToken})

\* ------------------------------------------------------------------ actions
\* an error reaches the catch block of the route handler
Fail(message) ==
  /\ res' = OuterCatch(res, message)
  /\ pc' = "done"
  /\ exitPath' = "catch"

\* UseProvider leaving the client's identifier in the request
UseProviderKeepsModel(r, p, made) ==
  /\ exitPath' = exitPath
  /\ provider' = p
  /\ req' = r
  /\ calls' = made \o <<Call("getRequestHeaders", p.address)>>
  /\ pc' = "getRequestHeaders"

\* getProvider returned p: the handler rewrites the model, encodes the request
\* and asks the broker for the request headers (chat.ts 247-264, 332-350)
UseProvider(r, p, made) ==
  /\ exitPath' = exitPath
  /\ provider' = p
  /\ req' = [r EXCEPT !.model = p.model]
  /\ calls' = made \o <<Call("getRequestHeaders", p.address)>>
  /\ pc' = "getRequestHeaders"

\* the acknowledgment query and what follows it are made for one address
StartAcknowledge(address, made) ==
  /\ exitPath' = exitPath
  /\ target' = address
  /\ calls' = made \o <<Call("userAcknowledged", address)>>
  /\ pc' = "userAcknowledged"

\* PostInvalid with the validation placed after the call of getProvider
PostInvalidAfterResolve ==
  /\ pc = "idle"
  /\ \E r \in Requests :
       /\ r.messages.kind # "array" \/ r.model \in {Undefined, ""}
       /\ req' = r
       /\ calls' = <<Call("getProvider", r.model)>>
       /\ res' = IF r.messages.kind # "array"
                   THEN ResJson(res, BadRequest,
                                ErrorDoc("Invalid request: messages array is required",
                                         "invalid_request_error", "invalid_messages"))
                   ELSE ResJson(res, BadRequest,
                                ErrorDoc("Invalid request: model is required",
                                         "invalid_request_error", "missing_model"))
       /\ pc' = "done"
       /\ exitPath' = "invalid"
  /\ UNCHANGED <<translation, authorization, resolverVars, parsed, target, provider, providerCache, acknowledged, response,
                 written, buffer, received>>

\* POST /chat/completions with a request that fails validation (chat.ts 167-190)
PostInvalid ==
  /\ pc = "idle"
  /\ \E r \in Requests :
       /\ r.messages.kind # "array" \/ r.model \in {Undefined, ""}
       /\ req' = r
       /\ res' = IF r.messages.kind # "array"
                   THEN ResJson(res, BadRequest,
                                ErrorDoc("Invalid request: messages array is required",
                                         "invalid_request_error", "invalid_messages"))
                   ELSE ResJson(res, BadRequest,
                                ErrorDoc("Invalid request: model is required",
                                         "invalid_request_error", "missing_model"))
       /\ pc' = "done"
       /\ exitPath' = "invalid"
  /\ UNCHANGED <<translation, authorization, resolverVars, parsed, target, provider, providerCache, acknowledged, calls, response,
                 written, buffer, received>>

\* POST with a valid request whose identifier the cache serves (part_000 104-111,
\* 134-141): getProvider returns the cached entry without any external call
PostCacheHit ==
  /\ pc = "idle"
  /\ \E r \in Requests :
       /\ r.messages.kind = "array" /\ r.model \notin {Undefined, ""}
       /\ CacheHit(providerCache, r.model)
       /\ UseProvider(r, providerCache, <<Call("getProvider", r.model)>>)
  /\ UNCHANGED <<translation, authorization, resolverVars, parsed, target, providerCache, acknowledged, response, res, written,
                 buffer, received>>

\* POST with a valid request the cache does not serve: getProvider starts the
\* acknowledgment query (address) or the service enumeration (model name)
PostCacheMiss ==
  /\ pc = "idle"
  /\ \E r \in Requests :
       /\ r.messages.kind = "array" /\ r.model \notin {Undefined, ""}
       /\ ~CacheHit(providerCache, r.model)
       /\ req' = r
       /\ IF StartsWith0x(r.model)
            THEN StartAcknowledge(r.model, <<Call("getProvider", r.model)>>)
            ELSE /\ calls' = <<Call("getProvider", r.model), Call("listService", Undefined)>>
                 /\ pc' = "listService"
                 /\ UNCHANGED <<target, exitPath>>
  /\ UNCHANGED <<translation, authorization, resolverVars, parsed, provider, providerCache, acknowledged, response, res, written,
                 buffer, received>>

\* broker.inference.listService settles (part_000 143-157)
ListServiceReturns ==
  /\ pc = "listService"
  /\ \/ /\ \E e \in ExternalErrors : Fail(e)
        /\ UNCHANGED <<target, calls>>
     \/ \E services \in ServiceLists :
          LET i == FindService(services, req.model)
          IN  IF services = <<>>
                THEN Fail(ErrNoProviders) /\ UNCHANGED <<target, calls>>
              ELSE IF i = 0
                THEN Fail(ErrNoProviderForModel) /\ UNCHANGED <<target, calls>>
              ELSE StartAcknowledge(services[i].provider, calls) /\ res' = res
  /\ UNCHANGED <<translation, authorization, resolverVars, parsed, req, provider, providerCache, acknowledged, response, written,
                 buffer, received>>

\* broker.inference.userAcknowledged settles (part_000 113-119, 159-165)
UserAcknowledgedReturns ==
  /\ pc = "userAcknowledged"
  /\ \/ /\ \E e \in ExternalErrors : Fail(e)
        /\ calls' = calls
     \/ /\ calls' = Append(calls, Call(IF IsAcknowledged(target, acknowledged)
                                         THEN "getServiceMetadata"
                                         ELSE "acknowledgeProviderSigner", target))
        /\ pc' = IF IsAcknowledged(target, acknowledged)
                   THEN "getServiceMetadata" ELSE "acknowledgeProviderSigner"
        /\ UNCHANGED <<res, exitPath>>
  /\ UNCHANGED <<translation, authorization, resolverVars, parsed, req, target, provider, providerCache, acknowledged, response,
                 written, buffer, received>>

\* broker.inference.acknowledgeProviderSigner settles
AcknowledgeReturns ==
  /\ pc = "acknowledgeProviderSigner"
  /\ \/ /\ \E e \in ExternalErrors : Fail(e)
        /\ UNCHANGED <<calls, acknowledged>>
     \/ /\ acknowledged' = acknowledged \cup {target}
        /\ calls' = Append(calls, Call("getServiceMetadata", target))
        /\ pc' = "getServiceMetadata"
        /\ UNCHANGED <<res, exitPath>>
  /\ UNCHANGED <<translation, authorization, resolverVars, parsed, req, target, provider, providerCache, response, written, buffer,
                 received>>

\* broker.inference.getServiceMetadata settles: the cache is written and the
\* entry returned to the handler (part_000 121-132, 167-179)
GetServiceMetadataReturns ==
  /\ pc = "getServiceMetadata"
  /\ \/ /\ \E e \in ExternalErrors : Fail(e)
        /\ UNCHANGED <<req, provider, providerCache, calls>>
     \/ LET providerInfo == ServiceMetadata(target)
            entry == ProviderInfo(target, providerInfo.endpoint, providerInfo.model)
        IN  /\ providerCache' = entry
            /\ UseProvider(req, entry, calls)
            /\ res' = res
  /\ UNCHANGED <<translation, authorization, resolverVars, parsed, target, acknowledged, response, written, buffer, received>>

\* GetRequestHeadersReturns reading the endpoint from the shared cache instead
\* of the ProviderInfo the handler holds
GetRequestHeadersReturnsReadsCache ==
  /\ pc = "getRequestHeaders"
  /\ \/ /\ \E e \in ExternalErrors : Fail(e)
        /\ calls' = calls
     \/ /\ calls' = Append(calls, [op |-> "fetch", arg |-> providerCache.endpoint,
                                   body |-> OpenAIToZG(req)])
        /\ pc' = "fetch"
        /\ UNCHANGED <<res, exitPath>>
  /\ UNCHANGED <<translation, authorization, resolverVars, parsed, req, target, provider, providerCache, acknowledged, response,
                 written, buffer, received>>

\* brokerManager.getRequestHeaders settles: the upstream call is issued
GetRequestHeadersReturns ==
  /\ pc = "getRequestHeaders"
  /\ \/ /\ \E e \in ExternalErrors : Fail(e)
        /\ calls' = calls
     \/ /\ calls' = Append(calls, [op |-> "fetch", arg |-> provider.endpoint,
                                   body |-> OpenAIToZG(req)])
        /\ pc' = "fetch"
        /\ UNCHANGED <<res, exitPath>>
  /\ UNCHANGED <<translation, authorization, resolverVars, parsed, req, target, provider, providerCache, acknowledged, response,
                 written, buffer, received>>

\* res.write(frames): appended to what the client has received; the first
\* write sends the headers
ResWrite(r, frames) == IF frames = <<>> THEN r ELSE [r EXCEPT !.headersSent = TRUE]

\* the frame written when the upstream response has no body (chat.ts 406-416)
NullBodyChunk(model) == StreamChunk(CompletionId, Created, model, EmptyDelta, "error")

\* FetchReturns issuing the upstream call a second time when the first fails
FetchReturnsRetrying ==
  /\ pc = "fetch"
  /\ IF CountCalls("fetch") < 2
       THEN /\ calls' = Append(calls, calls[Len(calls)])
            /\ UNCHANGED <<pc, res, exitPath>>
       ELSE /\ \E e \in ExternalErrors : Fail(e)
            /\ calls' = calls
  /\ UNCHANGED <<translation, authorization, resolverVars, parsed, req, target, provider, providerCache, acknowledged, response,
                 written, buffer, received>>

\* fetch settles (chat.ts 272-281 and 358-367, 393-420)
\* FetchReturns closing a response without body with the marker alone
FetchReturnsNullBodyOnlyDone ==
  /\ pc = "fetch"
  /\ \/ /\ \E e \in ExternalErrors : Fail(e)
        /\ UNCHANGED <<response, written>>
     \/ \E r \in UpstreamResponses :
          /\ response' = r
          /\ IF ~Ok(r)
               THEN pc' = "text" /\ UNCHANGED <<res, written, exitPath>>
             ELSE IF ~req.stream
               THEN pc' = "json" /\ UNCHANGED <<res, written, exitPath>>
             ELSE IF ~r.hasBody
               THEN LET frames == <<FormatSSEDone>>
                    IN  /\ written' = written \o frames
                        /\ res' = ResEnd(ResWrite([res EXCEPT !.contentType = EventStream],
                                                  frames))
                        /\ pc' = "done"
                        /\ exitPath' = "null_body"
             ELSE /\ res' = [res EXCEPT !.contentType = EventStream]
                  /\ pc' = "reading"
                  /\ UNCHANGED <<written, exitPath>>
  /\ UNCHANGED <<translation, authorization, resolverVars, parsed, req, target, provider, providerCache, acknowledged, calls, buffer,
                 received>>

FetchReturns ==
  /\ pc = "fetch"
  /\ \/ /\ \E e \in ExternalErrors : Fail(e)
        /\ UNCHANGED <<response, written>>
     \/ \E r \in UpstreamResponses :
          /\ response' = r
          /\ IF ~Ok(r)
               THEN pc' = "text" /\ UNCHANGED <<res, written, exitPath>>
             ELSE IF ~req.stream
               THEN pc' = "json" /\ UNCHANGED <<res, written, exitPath>>
             ELSE IF ~r.hasBody
               THEN LET frames == <<FormatSSE(NullBodyChunk(provider.model)), FormatSSEDone>>
                    IN  /\ written' = written \o frames
                        /\ res' = ResEnd(ResWrite([res EXCEPT !.contentType = EventStream],
                                                  frames))
                        /\ pc' = "done"
                        /\ exitPath' = "null_body"
             ELSE /\ res' = [res EXCEPT !.contentType = EventStream]
                  /\ pc' = "reading"
                  /\ UNCHANGED <<written, exitPath>>
  /\ UNCHANGED <<translation, authorization, resolverVars, parsed, req, target, provider, providerCache, acknowledged, calls, buffer,
                 received>>

\* response.text() of a non-success response settles (chat.ts 282-305, 368-391)
TextReturns ==
  /\ pc = "text"
  /\ \/ \E e \in ExternalErrors : Fail(e)
     \/ \E errorText \in ErrorTexts :
          /\ res' = IF response.status = PaymentRequired
                      THEN ResJson(res, PaymentRequired,
                                   ErrorDoc("Insufficient balance in 0G account",
                                            "insufficient_balance", "insufficient_balance"))
                      ELSE ResJson(res, response.status,
                                   ErrorDoc("Provider error: " \o errorText,
                                            "provider_error", "provider_error"))
          /\ pc' = "done"
          /\ exitPath' = "upstream_error"
  /\ UNCHANGED <<translation, authorization, resolverVars, parsed, req, target, provider, providerCache, acknowledged, calls, response,
                 written, buffer, received>>

\* response.json() of a non-streaming request settles (chat.ts 307-318)
JsonReturns ==
  /\ pc = "json"
  /\ \/ \E e \in ExternalErrors : Fail(e)
     \/ \E text \in JsonBodies :
          LET zgResponse == JsonParse(text)
              openAIResponse == ZgToOpenAI(zgResponse.value, req.model, req.messages.items)
          IN  IF zgResponse.threw THEN Fail(ErrJsonSyntax)
              ELSE IF openAIResponse.threw THEN Fail(ErrNullProperty)
              ELSE /\ res' = ResJson(res, res.statusCode, openAIResponse.doc)
                   /\ pc' = "done"
                   /\ exitPath' = "completion"
  /\ UNCHANGED <<translation, authorization, resolverVars, parsed, req, target, provider, providerCache, acknowledged, calls, response,
                 written, buffer, received>>

\* ReadChunk writing the frames of a chunk ahead of the earlier ones
ReadChunkPrepend ==
  /\ pc = "reading"
  /\ \E chunk \in Chunks(response.contentType, MaxStreamLen - Len(received)) :
       LET r == OnChunk(buffer, chunk, provider.model)
       IN  /\ received' = received \o chunk
           /\ written' = r.writes \o written
           /\ parsed' = parsed \o r.parsed
           /\ IF r.threw
                THEN /\ res' = StreamCatch(ResWrite(res, r.writes), ErrNullProperty)
                     /\ pc' = "done"
                     /\ exitPath' = "stream_catch"
                ELSE /\ res' = ResWrite(res, r.writes)
                     /\ UNCHANGED <<pc, exitPath>>
           /\ buffer' = r.buffer
  /\ UNCHANGED <<translation, authorization, resolverVars, req, target, provider, providerCache, acknowledged,
                 calls, response>>

\* the reader yields one of the chunks: one iteration of the read loop
\* (chat.ts 427-464)
ReadChunkFrom(chunks) ==
  /\ pc = "reading"
  /\ \E chunk \in chunks :
       LET r == OnChunk(buffer, chunk, provider.model)
       IN  /\ received' = received \o chunk
           /\ written' = written \o r.writes
           /\ parsed' = parsed \o r.parsed
           /\ IF r.threw
                THEN /\ res' = StreamCatch(ResWrite(res, r.writes), ErrNullProperty)
                     /\ pc' = "done"
                     /\ exitPath' = "stream_catch"
                ELSE /\ res' = ResWrite(res, r.writes)
                     /\ UNCHANGED <<pc, exitPath>>
           /\ buffer' = r.buffer
  /\ UNCHANGED <<translation, authorization, resolverVars, req, target, provider, providerCache, acknowledged,
                 calls, response>>

\* the same, for an upstream body of at most maxLen fragments
ReadChunkUpTo(maxLen) ==
  ReadChunkFrom(Chunks(response.contentType, maxLen - Len(received)))

ReadChunk == ReadChunkUpTo(MaxStreamLen)

LiveReadChunk == ReadChunkUpTo(MaxLiveStreamLen)

\* ReadEnd ending the response a second time
ReadEndTwice ==
  /\ pc = "reading"
  /\ written' = Append(written, FormatSSEDone)
  /\ res' = ResEnd(ResEnd(ResWrite(res, <<FormatSSEDone>>)))
  /\ pc' = "done"
  /\ exitPath' = "stream_end"
  /\ UNCHANGED <<translation, authorization, resolverVars, parsed, req, target, provider, providerCache, acknowledged, calls, response,
                 buffer, received>>

\* the reader is exhausted: the final marker is written and the response
\* ended (chat.ts 466-468)
ReadEnd ==
  /\ pc = "reading"
  /\ written' = Append(written, FormatSSEDone)
  /\ res' = ResEnd(ResWrite(res, <<FormatSSEDone>>))
  /\ pc' = "done"
  /\ exitPath' = "stream_end"
  /\ UNCHANGED <<translation, authorization, resolverVars, parsed, req, target, provider, providerCache, acknowledged, calls, response,
                 buffer, received>>

\* reading the upstream body fails (chat.ts 471-487)
ReadFails ==
  /\ pc = "reading"
  /\ \E e \in ExternalErrors : res' = StreamCatch(res, e)
  /\ pc' = "done"
  /\ exitPath' = "stream_catch"
  /\ UNCHANGED <<translation, authorization, resolverVars, parsed, req, target, provider, providerCache, acknowledged, calls, response,
                 written, buffer, received>>

\* every step of the handler but the delivery of a chunk
Steps ==
  \/ PostInvalid
  \/ PostCacheHit
  \/ PostCacheMiss
  \/ ListServiceReturns
  \/ UserAcknowledgedReturns
  \/ AcknowledgeReturns
  \/ GetServiceMetadataReturns
  \/ GetRequestHeadersReturns
  \/ FetchReturns
  \/ TextReturns
  \/ JsonReturns
  \/ ReadEnd
  \/ ReadFails

Next == Steps \/ ReadChunk

Spec == Init /\ [][Next]_vars

LiveNext == Steps \/ LiveReadChunk

\* Every external call and every upstream read eventually returns or fails,
\* and the upstream body is finite: some step of the handler is always taken.
LiveSpec == Init /\ [][LiveNext]_vars /\ WF_vars(LiveNext)

\* ------------------------------------- the handler among other requests
\* Another request's getProvider completes a resolution while this request is
\* suspended at an await: the shared cache is replaced by that request's entry,
\* whose address that request acknowledged (part_000 113-132, 159-179).
OtherRequestStores ==
  /\ pc \notin {"idle", "done"}
  /\ \E a \in ProviderAddresses :
       LET providerInfo == ServiceMetadata(a)
           entry == ProviderInfo(a, providerInfo.endpoint, providerInfo.model)
       IN  /\ entry # providerCache
           /\ providerCache' = entry
           /\ acknowledged' = acknowledged \cup {a}
  /\ UNCHANGED <<translation, authorization, resolverVars, parsed, pc, req, target, provider, calls, response, res, written,
                 buffer, received, exitPath>>

\* The client closes its connection while the response is being streamed.
\* The handler registers no listener for it and hands fetch no abort signal
\* (chat.ts 321-488), so nothing of the handler changes.
ClientDisconnects ==
  /\ pc = "reading"
  /\ ~res.closed
  /\ res' = [res EXCEPT !.closed = TRUE]
  /\ UNCHANGED <<translation, authorization, resolverVars, parsed, pc, req, target, provider, providerCache, acknowledged, calls,
                 response, written, buffer, received, exitPath>>

ServerNext == Next \/ OtherRequestStores \/ ClientDisconnects

ServerSpec == Init /\ [][ServerNext]_vars

\* ------------------------------------------- the middleware and the router
Unauthorized == 401

\* the message of each 401 answer of the middleware
AuthMessage(code) ==
  CASE code = "missing_authorization" -> "Missing authorization header"
    [] code = "invalid_authorization_format" ->
         "Invalid authorization header format. Expected: Bearer <token>"
    [] code = "invalid_token" -> "Invalid authentication token"

\* the middleware answers 401 and does not call next()
AuthRejects ==
  /\ pc = "idle"
  /\ LET code == AuthMiddleware(authorization, AuthToken)
     IN  /\ code # "next"
         /\ res' = ResJson(res, Unauthorized,
                           ErrorDoc(AuthMessage(code), "invalid_request_error", code))
  /\ pc' = "done"
  /\ exitPath' = "unauthorized"
  /\ UNCHANGED <<translation, authorization, resolverVars, parsed, req, target, provider,
                 providerCache, acknowledged, calls, response, written, buffer, received>>

\* app.use('/v1', createAuthMiddleware(AUTH_TOKEN), chatRouter): the router
\* runs when the middleware has called next()
AuthNext ==
  \/ AuthRejects
  \/ AuthMiddleware(authorization, AuthToken) = "next" /\ Next

AuthSpec == InitWith(Headers) /\ [][AuthNext]_vars

\* ------------------------------------------ the translator's functions alone
\* the longest line, in fragments, parseSSELine is applied to
MaxLineLen == 2

\* fragments of lines an upstream may send: a comment, a field other than
\* data, a data field that is not JSON, a data field without the space, and
\* the two halves of the data line of JsonA
CommentLine == [pre |-> ":", body |-> "keep-alive"]
EventField == [pre |-> "", body |-> "event: message"]
DataNotJson == DataLineOf("not-json")
DataNoSpace == [pre |-> "data:", body |-> DonePayload]
DataAHead == DataLineOf("{choices:[{delta:")
ATail == [pre |-> "", body |-> "{content:a}}]}"]

LineAlphabet ==
  {CR, DataDone, DataA, DataNotJson, DataNoSpace, CommentLine, EventField,
   DataAHead, ATail}

\* the lines parseSSELine is applied to
Lines == UNION { [1..k -> LineAlphabet] : k \in 0..MaxLineLen }

\* JSON.stringify of a list of tool calls: one call, and the empty list
ToolCallsText == "[{id:call_1,type:function,function:{name:f,arguments:{}}}]"
NoToolCallsText == "[]"

\* the parsed upstream documents zgToOpenAI is applied to: every combination
\* of the shapes it probes, a raw string, null, and a null first choice
ZgResponses ==
  { [JsonBase EXCEPT !.choices = "object0", !.c0_message_content = c,
                     !.c0_text = t, !.c0_tool_calls = tc,
                     !.c0_finish_reason = fr, !.response = r, !.content = k] :
      c \in {Undefined, Null, "", "hi"}, t \in {Undefined, "tx"},
      tc \in {Undefined, NoToolCallsText, ToolCallsText},
      fr \in {Undefined, "length"},
      r \in {Undefined, "", "resp"}, k \in {Undefined, "cont"} }
  \cup { [JsonBase EXCEPT !.choices = ch, !.response = r, !.content = k] :
           ch \in {Undefined, "empty"},
           r \in {Undefined, "", "resp"}, k \in {Undefined, "cont"} }
  \cup { [JsonBase EXCEPT !.typeof = "string", !.value = "raw"], NullValue,
         [JsonBase EXCEPT !.choices = "null0"] }

\* the message lists of the requests the translator is applied to: none, a
\* user message, a system message before it, an assistant message with tool
\* calls and null content followed by the tool's result, and a message whose
\* name is the empty string
MessageLists ==
  {<<>>,
   <<Message("user", "hi")>>,
   <<Message("system", "be brief"), Message("user", "hi")>>,
   <<Message("user", "hi"),
     ChatMessage("assistant", Null, ToolCallsText, Undefined, Undefined),
     ChatMessage("tool", "42", Undefined, "call_1", "f")>>,
   <<ChatMessage("tool", "42", Undefined, "call_1", "f"), Message("user", "hi")>>,
   <<ChatMessage("user", "hi", Undefined, Undefined, "")>>}

\* the requests openAIToZG is applied to: every optional field set or not
EncodeRequests ==
  { [ChatRequest([kind |-> "array", items |-> l], "model-a", st)
       EXCEPT !.temperature = t, !.max_tokens = mt, !.top_p = tp,
              !.tools = tl, !.tool_choice = tc] :
      l \in MessageLists, st \in BOOLEAN, t \in {Undefined, Null, "0.7"},
      mt \in {Undefined, "16"}, tp \in {Undefined, "0.9"},
      tl \in {Undefined, "[{type:function,function:{name:f}}]"},
      tc \in {Undefined, "auto"} }

\* No request is being handled and nothing has been translated; a behaviour
\* applies one function to one input.
TranslatorInit ==
  /\ authorization = "Bearer " \o AuthToken
  /\ pc = "idle"
  /\ req = NoRequest
  /\ target = Undefined
  /\ provider = NoProvider
  /\ providerCache = NoProvider
  /\ acknowledged = {}
  /\ calls = <<>>
  /\ response = NoUpstream
  /\ res = FreshResponse
  /\ written = <<>>
  /\ buffer = <<>>
  /\ received = <<>>
  /\ exitPath = "none"
  /\ resolutions = [c \in Resolvers |-> NotCalled]
  /\ trace = <<>>
  /\ parsed = <<>>
  /\ translation = NoTranslation

\* Translator.parseSSELine(line)
ParseSSELineApplied ==
  /\ translation = NoTranslation
  /\ \E line \in Lines :
       translation' = Translation("parseSSELine", line, ParseSSELine(line))
  /\ UNCHANGED <<handlerVars, resolverVars, providerCache, acknowledged>>

\* Translator.zgToOpenAI(zgResponse, model, requestMessages)
ZgToOpenAIApplied ==
  /\ translation = NoTranslation
  /\ \E zgResponse \in ZgResponses, requestMessages \in MessageLists :
       translation' =
         Translation("zgToOpenAI",
                     [zgResponse |-> zgResponse, model |-> "model-a",
                      requestMessages |-> requestMessages],
                     ZgToOpenAI(zgResponse, "model-a", requestMessages))
  /\ UNCHANGED <<handlerVars, resolverVars, providerCache, acknowledged>>

\* the parsed upstream frames zgStreamChunkToOpenAI is applied to: every
\* combination of the shapes it probes, a raw string, and a null first choice
ZgChunks ==
  { [JsonBase EXCEPT !.choices = "object0", !.c0_delta = cd, !.c0_finish_reason = cf,
                     !.delta = d, !.finish_reason = fr, !.content = k] :
      cd \in {NoDelta, Delta(Undefined, "from-choice")}, cf \in {Undefined, "stop"},
      d \in {NoDelta, Delta(Undefined, "from-delta")}, fr \in {Undefined, "length"},
      k \in {Undefined, "", "bare"} }
  \cup { [JsonBase EXCEPT !.choices = ch, !.delta = d, !.finish_reason = fr,
                          !.content = k] :
           ch \in {Undefined, "empty"},
           d \in {NoDelta, Delta(Undefined, "from-delta")}, fr \in {Undefined, "length"},
           k \in {Undefined, "", "bare"} }
  \cup { [JsonBase EXCEPT !.typeof = "string", !.value = "raw"],
         [JsonBase EXCEPT !.choices = "null0"] }

\* Translator.zgStreamChunkToOpenAI(zgChunk, model, id, created)
ZgStreamChunkToOpenAIApplied ==
  /\ translation = NoTranslation
  /\ \E zgChunk \in ZgChunks :
       translation' =
         Translation("zgStreamChunkToOpenAI", zgChunk,
                     ZgStreamChunkToOpenAI(zgChunk, "model-a", CompletionId, Created))
  /\ UNCHANGED <<handlerVars, resolverVars, providerCache, acknowledged>>

\* Translator.openAIToZG(openAIRequest)
OpenAIToZGApplied ==
  /\ translation = NoTranslation
  /\ \E openAIRequest \in EncodeRequests :
       translation' = Translation("openAIToZG", openAIRequest, OpenAIToZG(openAIRequest))
  /\ UNCHANGED <<handlerVars, resolverVars, providerCache, acknowledged>>

TranslatorNext ==
  \/ ParseSSELineApplied
  \/ ZgToOpenAIApplied
  \/ ZgStreamChunkToOpenAIApplied
  \/ OpenAIToZGApplied

TranslatorSpec == TranslatorInit /\ [][TranslatorNext]_vars

\* --------------------------------------------------- the read loop alone
\* the longest upstream body, in fragments, the read loop is followed over
MaxReaderLen == 4

\* The fragments of an event stream whose lines may be cut anywhere: line
\* ends, the marker, a data line in two halves, a data line, a comment, a
\* data line whose JSON object has a field named done.
ReaderAlphabet ==
  {LF, CR, DataDone, DataAHead, ATail, DataB, CommentLine, DataLineOf(JsonDoneField)}

\* A streaming request for "model-a", served from the cache, has reached the
\* read loop: the upstream answered 200 with an event stream (chat.ts 393-425).
ReaderInit ==
  /\ authorization = "Bearer " \o AuthToken
  /\ pc = "reading"
  /\ req = ChatRequest(MessagesArray, "model-a", TRUE)
  /\ target = Undefined
  /\ provider = ProviderInfo(AddressA, "https://a.example", "model-a")
  /\ providerCache = provider
  /\ acknowledged = {AddressA}
  /\ calls = <<Call("getProvider", "model-a"), Call("getRequestHeaders", AddressA),
               [op |-> "fetch", arg |-> provider.endpoint, body |-> OpenAIToZG(req)]>>
  /\ response = UpstreamResponse(200, EventStream, TRUE)
  /\ res = [FreshResponse EXCEPT !.contentType = EventStream]
  /\ written = <<>>
  /\ buffer = <<>>
  /\ received = <<>>
  /\ exitPath = "none"
  /\ resolutions = [c \in Resolvers |-> NotCalled]
  /\ trace = <<>>
  /\ parsed = <<>>
  /\ translation = NoTranslation

\* the reader yields a chunk that ends anywhere, inside a line or not
ReaderReadChunk ==
  ReadChunkFrom(UNION { [1..k -> ReaderAlphabet] : k \in 1..(MaxReaderLen - Len(received)) })

ReaderNext == ReaderReadChunk \/ ReadEnd \/ ReadFails

ReaderSpec == ReaderInit /\ [][ReaderNext]_vars

\* ------------------------------------------- getProvider called concurrently
\* The process starts with an empty cache (part_000 73); the network may hold
\* acknowledgments of earlier sessions.  No request is being handled.
ResolverInit ==
  /\ authorization = "Bearer " \o AuthToken
  /\ pc = "idle"
  /\ req = NoRequest
  /\ target = Undefined
  /\ provider = NoProvider
  /\ providerCache = NoProvider
  /\ acknowledged \in SUBSET ProviderAddresses
  /\ calls = <<>>
  /\ response = NoUpstream
  /\ res = FreshResponse
  /\ written = <<>>
  /\ buffer = <<>>
  /\ received = <<>>
  /\ exitPath = "none"
  /\ resolutions = [c \in Resolvers |-> NotCalled]
  /\ trace = <<>>
  /\ parsed = <<>>
  /\ translation = NoTranslation

\* what a capability of the broker rejects with while getProvider awaits it
ResolverErrors == {ErrNetwork}

\* the callers are numbered in the order of their first call
MayCall(c) ==
  /\ resolutions[c].pc \in {"idle", "returned", "failed"}
  /\ \A d \in Resolvers : d < c => resolutions[d].pc # "idle"

CallsOfGetProvider ==
  Cardinality({i \in 1..Len(trace) : trace[i].event = "getProvider"})

\* the ProviderInfo getProvider builds from the metadata (part_000 127-131, 173-177)
CacheEntry(address, providerInfo) ==
  ProviderInfo(address, providerInfo.endpoint, providerInfo.model)

\* an awaited capability rejects, or getProvider throws: the call of c is over
ResolverThrows(c, message) ==
  /\ resolutions' = [resolutions EXCEPT ![c].pc = "failed"]
  /\ trace' = Append(trace, Event("throw", c, resolutions[c].id, message))

\* getProvider throws on the enumeration listService answered for c
ResolverThrowsOn(c, services, message) ==
  /\ resolutions' = [resolutions EXCEPT ![c].pc = "failed"]
  /\ trace' = trace \o <<Event("services", c, resolutions[c].id, services),
                         Event("throw", c, resolutions[c].id, message)>>

\* c moves on to the await of the capability op, called with arg
ResolverCalls(c, op, arg) ==
  /\ resolutions' = [resolutions EXCEPT ![c].pc = op]
  /\ trace' = Append(trace, Event(op, c, arg, Undefined))

\* getProvider(id) with an entry in the cache that serves id: returned at once
\* (part_000 104-111, 134-141)
GetProviderCacheHit(c) ==
  /\ MayCall(c)
  /\ CallsOfGetProvider < MaxResolutions
  /\ \E id \in Identifiers :
       /\ CacheHit(providerCache, id)
       /\ resolutions' = [resolutions EXCEPT
                            ![c] = Resolution("returned", id, Undefined, providerCache)]
       /\ trace' = trace \o <<Event("getProvider", c, id, Undefined),
                              Event("return", c, id, providerCache)>>
  /\ UNCHANGED <<translation, handlerVars, providerCache, acknowledged>>

\* getProvider(id) that the cache does not serve: the acknowledgment query of
\* the address, or the enumeration of the services, is awaited
GetProviderCacheMiss(c) ==
  /\ MayCall(c)
  /\ CallsOfGetProvider < MaxResolutions
  /\ \E id \in Identifiers :
       /\ ~CacheHit(providerCache, id)
       /\ IF StartsWith0x(id)
            THEN /\ resolutions' = [resolutions EXCEPT
                      ![c] = Resolution("userAcknowledged", id, id, NoProvider)]
                 /\ trace' = trace \o <<Event("getProvider", c, id, Undefined),
                                        Event("userAcknowledged", c, id, Undefined)>>
            ELSE /\ resolutions' = [resolutions EXCEPT
                      ![c] = Resolution("listService", id, Undefined, NoProvider)]
                 /\ trace' = trace \o <<Event("getProvider", c, id, Undefined),
                                        Event("listService", c, Undefined, Undefined)>>
  /\ UNCHANGED <<translation, handlerVars, providerCache, acknowledged>>

\* ResolverListServiceReturns without the test for an empty enumeration
ListServiceSkipsEmptyTest(c) ==
  /\ resolutions[c].pc = "listService"
  /\ \/ \E e \in ResolverErrors : ResolverThrows(c, e)
     \/ \E services \in ServiceLists :
          LET i == FindService(services, resolutions[c].id)
          IN  IF i = 0 THEN ResolverThrowsOn(c, services, ErrNoProviderForModel)
              ELSE /\ resolutions' = [resolutions EXCEPT
                                        ![c].pc = "userAcknowledged",
                                        ![c].target = services[i].provider]
                   /\ trace' = trace \o <<Event("services", c, resolutions[c].id, services),
                                          Event("userAcknowledged", c,
                                                services[i].provider, Undefined)>>
  /\ UNCHANGED <<translation, handlerVars, providerCache, acknowledged>>

\* listService settles for c (part_000 143-162)
ResolverListServiceReturns(c) ==
  /\ resolutions[c].pc = "listService"
  /\ \/ \E e \in ResolverErrors : ResolverThrows(c, e)
     \/ \E services \in ServiceLists :
          LET i == FindService(services, resolutions[c].id)
          IN  IF services = <<>> THEN ResolverThrowsOn(c, services, ErrNoProviders)
              ELSE IF i = 0 THEN ResolverThrowsOn(c, services, ErrNoProviderForModel)
              ELSE /\ resolutions' = [resolutions EXCEPT
                                        ![c].pc = "userAcknowledged",
                                        ![c].target = services[i].provider]
                   /\ trace' = trace \o <<Event("services", c, resolutions[c].id, services),
                                          Event("userAcknowledged", c,
                                                services[i].provider, Undefined)>>
  /\ UNCHANGED <<translation, handlerVars, providerCache, acknowledged>>

\* ResolverUserAcknowledgedReturns acknowledging whatever the query answers
UserAcknowledgedAlwaysAcknowledges(c) ==
  /\ resolutions[c].pc = "userAcknowledged"
  /\ \/ \E e \in ResolverErrors : ResolverThrows(c, e)
     \/ LET answer == IsAcknowledged(resolutions[c].target, acknowledged)
        IN  /\ resolutions' = [resolutions EXCEPT ![c].pc = "acknowledgeProviderSigner"]
            /\ trace' = trace \o <<Event("answer", c, resolutions[c].target, answer),
                                   Event("acknowledgeProviderSigner", c,
                                         resolutions[c].target, Undefined)>>
  /\ UNCHANGED <<translation, handlerVars, providerCache, acknowledged>>

\* userAcknowledged settles for c with the network's answer (part_000 116-124,
\* 162-170)
ResolverUserAcknowledgedReturns(c) ==
  /\ resolutions[c].pc = "userAcknowledged"
  /\ \/ \E e \in ResolverErrors : ResolverThrows(c, e)
     \/ LET answer == IsAcknowledged(resolutions[c].target, acknowledged)
            op == IF answer THEN "getServiceMetadata" ELSE "acknowledgeProviderSigner"
        IN  /\ resolutions' = [resolutions EXCEPT ![c].pc = op]
            /\ trace' = trace \o <<Event("answer", c, resolutions[c].target, answer),
                                   Event(op, c, resolutions[c].target, Undefined)>>
  /\ UNCHANGED <<translation, handlerVars, providerCache, acknowledged>>

\* acknowledgeProviderSigner settles for c (part_000 119-124, 165-170)
ResolverAcknowledgeReturns(c) ==
  /\ resolutions[c].pc = "acknowledgeProviderSigner"
  /\ \/ /\ \E e \in ResolverErrors : ResolverThrows(c, e)
        /\ acknowledged' = acknowledged
     \/ /\ acknowledged' = acknowledged \cup {resolutions[c].target}
        /\ ResolverCalls(c, "getServiceMetadata", resolutions[c].target)
  /\ UNCHANGED <<translation, handlerVars, providerCache>>

\* ResolverGetServiceMetadataReturns returning what the cache held when the
\* fetch settled, where it held something
MetadataReturnsCachedEntry(c) ==
  /\ resolutions[c].pc = "getServiceMetadata"
  /\ \/ /\ \E e \in ResolverErrors : ResolverThrows(c, e)
        /\ providerCache' = providerCache
     \/ LET entry == CacheEntry(resolutions[c].target,
                                ServiceMetadata(resolutions[c].target))
            seen == IF providerCache = NoProvider THEN entry ELSE providerCache
        IN  /\ providerCache' = entry
            /\ resolutions' = [resolutions EXCEPT ![c].pc = "returned",
                                                  ![c].result = seen]
            /\ trace' = Append(trace, Event("return", c, resolutions[c].id, seen))
  /\ UNCHANGED <<translation, handlerVars, acknowledged>>

\* ResolverGetServiceMetadataReturns returning the entry without storing it
MetadataReturnsWithoutStore(c) ==
  /\ resolutions[c].pc = "getServiceMetadata"
  /\ \/ \E e \in ResolverErrors : ResolverThrows(c, e)
     \/ LET entry == CacheEntry(resolutions[c].target,
                                ServiceMetadata(resolutions[c].target))
        IN  /\ resolutions' = [resolutions EXCEPT ![c].pc = "returned",
                                                  ![c].result = entry]
            /\ trace' = Append(trace, Event("return", c, resolutions[c].id, entry))
  /\ UNCHANGED <<translation, handlerVars, acknowledged, providerCache>>

\* ResolverGetServiceMetadataReturns storing the address before the fetch settles
MetadataFailureStoresAddress(c) ==
  /\ resolutions[c].pc = "getServiceMetadata"
  /\ \/ /\ \E e \in ResolverErrors : ResolverThrows(c, e)
        /\ providerCache' = ProviderInfo(resolutions[c].target, Undefined, Undefined)
     \/ LET entry == CacheEntry(resolutions[c].target,
                                ServiceMetadata(resolutions[c].target))
        IN  /\ providerCache' = entry
            /\ resolutions' = [resolutions EXCEPT ![c].pc = "returned",
                                                  ![c].result = entry]
            /\ trace' = Append(trace, Event("return", c, resolutions[c].id, entry))
  /\ UNCHANGED <<translation, handlerVars, acknowledged>>

\* getServiceMetadata settles for c: the cache is replaced and the new entry
\* returned in the same step (part_000 124-133, 170-179)
ResolverGetServiceMetadataReturns(c) ==
  /\ resolutions[c].pc = "getServiceMetadata"
  /\ \/ /\ \E e \in ResolverErrors : ResolverThrows(c, e)
        /\ providerCache' = providerCache
     \/ LET entry == CacheEntry(resolutions[c].target,
                                ServiceMetadata(resolutions[c].target))
        IN  /\ providerCache' = entry
            /\ resolutions' = [resolutions EXCEPT ![c].pc = "returned",
                                                  ![c].result = entry]
            /\ trace' = Append(trace, Event("return", c, resolutions[c].id, entry))
  /\ UNCHANGED <<translation, handlerVars, acknowledged>>

ResolverNext ==
  \/ \E c \in Resolvers : GetProviderCacheHit(c)
  \/ \E c \in Resolvers : GetProviderCacheMiss(c)
  \/ \E c \in Resolvers : ResolverListServiceReturns(c)
  \/ \E c \in Resolvers : ResolverUserAcknowledgedReturns(c)
  \/ \E c \in Resolvers : ResolverAcknowledgeReturns(c)
  \/ \E c \in Resolvers : ResolverGetServiceMetadataReturns(c)

ResolverSpec == ResolverInit /\ [][ResolverNext]_vars

\* ------------------------------------------------------------------ claims
IsChunkFrame(f) == f.event = "chunk"

CountDone == Cardinality({i \in 1..Len(written) : written[i] = FormatSSEDone})

\* what a frame shows of its origin: the kind, the delta and the finish reason
Shape(f) == [event |-> f.event, delta |-> f.chunk.delta,
             finish_reason |-> f.chunk.finish_reason]

RECURSIVE SelectChunkFrames(_)
SelectChunkFrames(frames) ==
  IF frames = <<>> THEN <<>>
  ELSE IF IsChunkFrame(Head(frames))
    THEN <<Head(frames)>> \o SelectChunkFrames(Tail(frames))
    ELSE SelectChunkFrames(Tail(frames))

\* the frames the complete lines of a text translate to, in the order of the lines
RECURSIVE FramesOfLines(_, _)
FramesOfLines(lines, model) ==
  IF lines = <<>> THEN <<>>
  ELSE LET data == ParseSSELine(Trim(Head(lines)))
           r == ZgStreamChunkToOpenAI(data, model, CompletionId, Created)
       IN  IF Truthy(data) /\ ~data.done /\ ~r.threw
             THEN <<FormatSSE(r.chunk)>> \o FramesOfLines(Tail(lines), model)
             ELSE FramesOfLines(Tail(lines), model)

ArrivedFrames ==
  LET lines == Split(received)
  IN  FramesOfLines(SubSeq(lines, 1, Len(lines) - 1), provider.model)

\* a is b with some elements left out, the rest in the same order
RECURSIVE IsSubsequence(_, _)
IsSubsequence(a, b) ==
  IF a = <<>> THEN TRUE
  ELSE IF b = <<>> THEN FALSE
  ELSE IF Head(a) = Head(b) THEN IsSubsequence(Tail(a), Tail(b))
  ELSE IsSubsequence(a, Tail(b))

IsPrefix(a, b) == Len(a) <= Len(b) /\ SubSeq(b, 1, Len(a)) = a

\* C1 (as claimed): once a frame has been written, the last thing written
\* before the response is closed is the terminal marker, on every path,
\* failures of the read loop included.
C1_LastWrittenIsDone ==
  (pc = "done" /\ written # <<>>) => written[Len(written)] = FormatSSEDone

\* C2 (as claimed): no data frame is ever written to the client after a
\* terminal marker has been written.
C2_NoFrameAfterDone ==
  \A i, j \in 1..Len(written) :
    (i < j /\ written[i] = FormatSSEDone) => ~IsChunkFrame(written[j])

\* C3 (as claimed): a streaming response that completes without error has
\* the terminal marker written exactly once.
C3_DoneExactlyOnce ==
  exitPath = "stream_end" => CountDone = 1

\* C4: the frames the read loop writes are the translations of upstream lines
\* in the order in which those lines arrived, and every write appends to what
\* was written.
C4_InArrivalOrder ==
  /\ [](exitPath # "null_body" =>
          IsSubsequence(SelectChunkFrames(written), ArrivedFrames))
  /\ [][IsPrefix(written, written')]_vars

C4_Witness ==
  /\ exitPath = "stream_end"
  /\ Len(SelectChunkFrames(written)) = 2
  /\ written[1] # written[2]

\* C5 (as claimed): a streaming request whose upstream response is a complete
\* JSON document with content "a b" is answered with the role frame, the
\* deltas "a", " ", "b", the closing frame (stop) and the terminal marker.
C5_SynthesizedFrames ==
  (exitPath = "stream_end" /\ response.contentType = ApplicationJson
     /\ received = <<PlainDoc>>)
  => [i \in 1..Len(written) |-> Shape(written[i])]
       = << [event |-> "chunk", delta |-> Delta("assistant", Undefined), finish_reason |-> Null],
            [event |-> "chunk", delta |-> Delta(Undefined, "a"), finish_reason |-> Null],
            [event |-> "chunk", delta |-> Delta(Undefined, " "), finish_reason |-> Null],
            [event |-> "chunk", delta |-> Delta(Undefined, "b"), finish_reason |-> Null],
            [event |-> "chunk", delta |-> EmptyDelta, finish_reason |-> "stop"],
            Shape(FormatSSEDone) >>

\* C6: a request without a messages array, or without a model, is answered
\* 400 with the message of the first failed test, and no provider resolution,
\* header generation or upstream call is made for it, streaming or not.
C6_RejectedBeforeResolution ==
  (pc # "idle" /\ (req.messages.kind # "array" \/ req.model \in {Undefined, ""}))
  => /\ res.statusCode = BadRequest
     /\ res.ended = 1
     /\ res.body.object = "error"
     /\ res.body.type = "invalid_request_error"
     /\ res.body.message = IF req.messages.kind # "array"
                             THEN "Invalid request: messages array is required"
                             ELSE "Invalid request: model is required"
     /\ calls = <<>>
     /\ written = <<>>

C6_Witness ==
  /\ pc = "done"
  /\ req.messages.kind = "array" /\ req.model = Undefined /\ req.stream
  /\ res.statusCode = BadRequest
  /\ res.body.code = "missing_model"

\* C7 (as claimed): an upstream status of 402 always yields client status 402
\* with type insufficient_balance, and no frame is written.
C7_PaymentRequiredAlways ==
  (pc = "done" /\ response.status = PaymentRequired)
  => /\ res.statusCode = PaymentRequired
     /\ res.body.object = "error"
     /\ res.body.type = "insufficient_balance"
     /\ written = <<>>

\* C8 (as claimed): any upstream non-success status other than 402 yields a
\* provider_error document with the upstream status and the upstream body
\* text, and no event-stream header or frame.
C8_ProviderErrorAlways ==
  (pc = "done" /\ response # NoUpstream /\ ~Ok(response)
     /\ response.status # PaymentRequired)
  => /\ res.statusCode = response.status
     /\ res.body.object = "error"
     /\ res.body.type = "provider_error"
     /\ res.body.message \in {"Provider error: " \o t : t \in ErrorTexts}
     /\ res.contentType = ApplicationJson
     /\ written = <<>>

\* C9: once a frame has been written, no step produces a JSON document or
\* changes the status; a failure of the read loop then only ends the
\* response, and it answers with the structured 500 only if nothing was
\* written.
C9_NoErrorDocAfterFrames ==
  /\ [](exitPath = "stream_catch" =>
          IF written = <<>>
            THEN /\ res.statusCode = InternalServerError
                 /\ res.body.object = "error"
                 /\ res.body.code = "streaming_error"
                 /\ res.ended = 1
            ELSE /\ res.statusCode = 200
                 /\ res.body = NoBody
                 /\ res.contentType = EventStream
                 /\ res.ended = 1)
  /\ [][written # <<>> => (res'.body = res.body /\ res'.statusCode = res.statusCode)]_vars

C9_Witness ==
  /\ exitPath = "stream_catch"
  /\ written # <<>>
  /\ res.ended = 1
  /\ res.body = NoBody

\* C10: every request eventually has its response completed, a JSON document
\* delivered or the stream closed.
C10_ResponseCompletes ==
  (pc # "idle") ~> (pc = "done" /\ res.ended = 1)

C10_Witness ==
  /\ pc = "done"
  /\ res.ended = 1
  /\ exitPath = "stream_catch"
  /\ written # <<>>

\* ------------------------------------------- claims about getProvider alone
\* the events of the trace from i to j that call the capability op
CountEvents(op, i, j) ==
  Cardinality({k \in i..j : k \in 1..Len(trace) /\ trace[k].event = op})

IsAddress(id) == StartsWith0x(id)

SameAddress(a, b) == IsAddress(a) /\ IsAddress(b) /\ ToLowerCase(a) = ToLowerCase(b)

\* trace[i] and trace[j] are calls of getProvider in succession: the first has
\* returned before the second is made, and between the call of the first and
\* the call of the second no other resolution has called or run
Successive(i, j) ==
  /\ i \in 1..Len(trace) /\ j \in 1..Len(trace) /\ i < j
  /\ trace[i].event = "getProvider" /\ trace[j].event = "getProvider"
  /\ trace[j - 1].event = "return"
  /\ \A k \in (i + 1)..(j - 1) :
       trace[k].resolver = trace[i].resolver /\ trace[k].event # "getProvider"

\* C11: when the same address (ignoring case) is resolved twice in succession
\* and the first resolution is not served from the cache, the two resolutions
\* together make exactly one acknowledgment query, one metadata fetch and one
\* call of acknowledgeProviderSigner where the query answered false (none where
\* it answered true): the second resolution makes no external call and
\* returns the ProviderInfo the first returned.
C11_SecondServedFromCache ==
  \A i, j \in 1..Len(trace) :
    ( /\ Successive(i, j)
      /\ SameAddress(trace[i].id, trace[j].id)
      /\ trace[i + 1].event = "userAcknowledged" )
    => /\ j + 1 <= Len(trace)
       /\ trace[j + 1].event = "return"
       /\ trace[j + 1].resolver = trace[j].resolver
       /\ trace[j + 1].value = trace[j - 1].value
       /\ CountEvents("userAcknowledged", i, j + 1) = 1
       /\ CountEvents("getServiceMetadata", i, j + 1) = 1
       /\ CountEvents("acknowledgeProviderSigner", i, j + 1) =
            (IF \E k \in i..j : trace[k].event = "answer" /\ trace[k].value = FALSE
               THEN 1 ELSE 0)
       /\ CountEvents("listService", i, j + 1) = 0

\* "0xA" is resolved with an acknowledgment, then "0xa" by the other caller
C11_Witness ==
  \E i, j \in 1..Len(trace) :
    /\ Successive(i, j)
    /\ trace[i].id = AddressA /\ trace[j].id = "0xa"
    /\ trace[i].resolver # trace[j].resolver
    /\ CountEvents("acknowledgeProviderSigner", i, j) = 1
    /\ j + 1 = Len(trace)
    /\ trace[j + 1].event = "return"
    /\ trace[j + 1].value = ProviderInfo(AddressA, "https://a.example", "model-a")

\* the cached entry matches the identifier's classification and value
Matches(cache, id) ==
  /\ cache # NoProvider
  /\ IF IsAddress(id) THEN SameAddress(cache.address, id) ELSE cache.model = id

\* the step is a call of getProvider
IsCallStep == Len(trace') > Len(trace) /\ trace'[Len(trace) + 1].event = "getProvider"

\* C12: a call of getProvider(id) returns the cached entry in the same step,
\* without any external call and without touching the cache, exactly when the
\* cached entry matches id (same address ignoring case, or the same model
\* name); otherwise it returns nothing yet and awaits an external capability.
C12_HitExactlyWhenMatching ==
  [][IsCallStep =>
       LET call == trace'[Len(trace) + 1]
       IN  IF Matches(providerCache, call.id)
             THEN /\ Len(trace') = Len(trace) + 2
                  /\ trace'[Len(trace) + 2].event = "return"
                  /\ trace'[Len(trace) + 2].resolver = call.resolver
                  /\ trace'[Len(trace) + 2].value = providerCache
                  /\ resolutions'[call.resolver].result = providerCache
                  /\ providerCache' = providerCache
             ELSE /\ Len(trace') = Len(trace) + 2
                  /\ trace'[Len(trace) + 2].event \in {"userAcknowledged", "listService"}
                  /\ resolutions'[call.resolver].result = NoProvider
                  /\ resolutions'[call.resolver].pc \in
                       {"userAcknowledged", "listService"}]_vars

\* the entry resolved for "0xA" serves a later call for "model-a"
C12_Witness ==
  /\ Len(trace) >= 2
  /\ trace[Len(trace) - 1].event = "getProvider"
  /\ trace[Len(trace) - 1].id = "model-a"
  /\ trace[Len(trace)].event = "return"
  /\ trace[Len(trace)].value.address = AddressA
  /\ trace[1].id = AddressA
  /\ CountEvents("listService", 1, Len(trace)) = 0

\* a ProviderInfo whose three fields come from one resolution of its address
CompleteProviderInfo(p) ==
  /\ p.address \in {AddressA, "0xa", AddressB, AddressC}
  /\ p.endpoint = ServiceMetadata(p.address).endpoint
  /\ p.model = ServiceMetadata(p.address).model

\* the step ends a resolution with a throw
IsThrowStep == Len(trace') > Len(trace) /\ trace'[Len(trace')].event = "throw"

\* the step ends a cache miss with the return of the entry it built
IsStoreStep ==
  /\ Len(trace') = Len(trace) + 1
  /\ trace'[Len(trace')].event = "return"

\* C13: the cache is always empty or a complete ProviderInfo; a step in which
\* a resolution fails (at the enumeration, the model lookup, the
\* acknowledgment query, the acknowledgment or the metadata fetch) leaves the
\* cache as it was, and the cache changes only in the step in which a
\* resolution returns the entry it built, to that entry.
C13_CacheReplacedAtomically ==
  /\ [](providerCache = NoProvider \/ CompleteProviderInfo(providerCache))
  /\ [][IsThrowStep => providerCache' = providerCache]_vars
  /\ [][providerCache' # providerCache =>
          (IsStoreStep /\ providerCache' = trace'[Len(trace')].value)]_vars

\* the metadata fetch for "0xB" failed while the cache held the entry of "0xA"
C13_Witness ==
  /\ Len(trace) >= 2
  /\ trace[Len(trace)].event = "throw"
  /\ trace[Len(trace) - 1].event = "getServiceMetadata"
  /\ trace[Len(trace) - 1].id = AddressB
  /\ providerCache = ProviderInfo(AddressA, "https://a.example", "model-a")

\* the places of the trace where a resolution returned
Returns == {k \in 1..Len(trace) : trace[k].event = "return"}

LastReturn == CHOOSE k \in Returns : \A m \in Returns : m <= k

\* C14: the cache is one ProviderInfo or empty, and it holds the ProviderInfo
\* returned by the successful resolution that completed last (nothing when no
\* resolution has succeeded yet), however the resolutions are interleaved and
\* whatever resolutions failed in between.
C14_HoldsLastCompleted ==
  IF Returns = {}
    THEN providerCache = NoProvider
    ELSE providerCache = trace[LastReturn].value

\* two resolutions overlap; the one that was called first completes last
C14_Witness ==
  /\ Cardinality(Returns) = 2
  /\ \A k \in Returns :
       CountEvents("getProvider", 1, k) = 2
  /\ trace[1].resolver = trace[LastReturn].resolver
  /\ \E k \in Returns : trace[k].value # trace[LastReturn].value
  /\ providerCache = resolutions[trace[1].resolver].result

\* the resolution called at i returns at k, and while it was in flight another
\* caller's resolution returned at m an entry that does not serve the
\* identifier of the first: the second resolver wrote the cache before the
\* first resolver finished
Overlapped(i, m, k) ==
  /\ i < m /\ m < k
  /\ trace[i].event = "getProvider"
  /\ trace[k].event = "return"
  /\ trace[k].resolver = trace[i].resolver
  /\ \A n \in (i + 1)..(k - 1) :
       trace[n].resolver = trace[i].resolver => trace[n].event \notin {"getProvider", "return", "throw"}
  /\ trace[m].event = "return"
  /\ trace[m].resolver # trace[i].resolver
  /\ ~Matches(trace[m].value, trace[i].id)

ResolvedForCaller(k) ==
  \/ Matches(trace[k].value, trace[k].id)
  \/ \E n \in 1..(k - 1) :
       /\ trace[n].event = "services"
       /\ trace[n].resolver = trace[k].resolver
       /\ trace[n].id = trace[k].id
       /\ \A j \in (n + 1)..k :
            trace[j].resolver = trace[k].resolver => trace[j].event # "getProvider"
       /\ FindService(trace[n].value, trace[k].id) # 0
       /\ trace[k].value.address =
            trace[n].value[FindService(trace[n].value, trace[k].id)].provider

AcknowledgeCalls(address) ==
  {k \in 1..Len(trace) :
     /\ trace[k].event = "acknowledgeProviderSigner"
     /\ SameAddress(trace[k].id, address)
     /\ ~\E n \in (k + 1)..Len(trace) :
          /\ trace[n].resolver = trace[k].resolver
          /\ trace[n].event = "throw"
          /\ \A j \in (k + 1)..(n - 1) : trace[j].resolver # trace[k].resolver}

\* C16 (as claimed): acknowledgeProviderSigner is invoked at most once per
\* provider address, for any interleaving of concurrent resolutions of that
\* address (userAcknowledged answers true once an acknowledgment of the
\* address has completed; a call the network rejected is not counted).
C16_AcknowledgedOncePerAddress ==
  \A a \in {AddressA, AddressB, AddressC} : Cardinality(AcknowledgeCalls(a)) <= 1

\* the events that the call which received the enumeration at n made after it
AfterEnumeration(n) ==
  {k \in (n + 1)..Len(trace) :
     /\ trace[k].resolver = trace[n].resolver
     /\ \A j \in (n + 1)..k :
          trace[j].resolver = trace[n].resolver => trace[j].event # "getProvider"}

Declares(services, name) == \E i \in 1..Len(services) : services[i].model = name

\* C17: a resolution of a model name that misses the cache throws "No
\* providers available" when the enumeration is empty and "No provider found
\* for model" when no enumerated service declares exactly that name, at once:
\* it makes no acknowledgment query, acknowledgment or metadata fetch.
C17_EnumerationFailures ==
  \A n \in 1..Len(trace) :
    (trace[n].event = "services" /\ ~Declares(trace[n].value, trace[n].id))
    => /\ ~IsAddress(trace[n].id)
       /\ n + 1 <= Len(trace)
       /\ trace[n + 1].event = "throw"
       /\ trace[n + 1].resolver = trace[n].resolver
       /\ trace[n + 1].value = (IF trace[n].value = <<>> THEN ErrNoProviders
                                                         ELSE ErrNoProviderForModel)
       /\ \A k \in AfterEnumeration(n) : k = n + 1

\* "model-x" is looked up in an enumeration that does not declare it, after an
\* empty enumeration failed the other caller
C17_Witness ==
  \E m, n \in 1..Len(trace) :
    /\ trace[m].event = "services" /\ trace[m].value = <<>>
    /\ trace[m + 1].value = ErrNoProviders
    /\ trace[n].event = "services" /\ Len(trace[n].value) = 3
    /\ trace[n].id = "model-x"
    /\ n + 1 = Len(trace)
    /\ trace[n + 1].value = ErrNoProviderForModel

\* the first service of an enumeration that declares the model
FirstDeclaring(services, name) ==
  CHOOSE i \in 1..Len(services) :
    /\ services[i].model = name
    /\ \A j \in 1..Len(services) : services[j].model = name => i <= j

\* C18: a resolution of a model name whose enumeration declares the model goes
\* on with the first service in enumeration order that declares it: the
\* acknowledgment query, the acknowledgment and the metadata fetch are made for
\* that service's address only, and the ProviderInfo returned carries that
\* address and is the one stored in the cache.
C18_FirstDeclaringService ==
  \A n \in 1..Len(trace) :
    (trace[n].event = "services" /\ Declares(trace[n].value, trace[n].id))
    => LET selected == trace[n].value[FirstDeclaring(trace[n].value, trace[n].id)].provider
       IN  /\ n + 1 <= Len(trace)
           /\ trace[n + 1].event = "userAcknowledged"
           /\ \A k \in AfterEnumeration(n) :
                /\ trace[k].event \in {"userAcknowledged", "answer", "acknowledgeProviderSigner",
                                       "getServiceMetadata", "return", "throw"}
                /\ trace[k].event \in {"userAcknowledged", "answer", "acknowledgeProviderSigner",
                                       "getServiceMetadata"}
                     => trace[k].id = selected
                /\ trace[k].event = "return"
                     => /\ trace[k].value.address = selected
                        /\ trace[k].value = CacheEntry(selected, ServiceMetadata(selected))
                        /\ (k = LastReturn => providerCache = trace[k].value)

\* "model-a" is declared by the second and the third service of the
\* enumeration; the second is acknowledged, fetched, returned and cached
C18_Witness ==
  \E n \in 1..Len(trace) :
    /\ trace[n].event = "services"
    /\ trace[n].id = "model-a"
    /\ Len(trace[n].value) = 3
    /\ CountEvents("acknowledgeProviderSigner", n, Len(trace)) = 1
    /\ trace[Len(trace)].event = "return"
    /\ trace[Len(trace)].resolver = trace[n].resolver
    /\ providerCache = ProviderInfo(AddressC, "https://c.example", "model-a")

\* ------------------------------------- claims about the handler's resolution
\* C19: a request whose resolution throws "No providers available" is
\* answered with status 503 and the structured error document (that message,
\* type service_unavailable, code no_provider_available), once, with no frame
\* written; no request headers were asked for and no upstream call was made.
C19_NoProvidersIs503 ==
  (pc = "done" /\ exitPath = "catch" /\ res.body.message = ErrNoProviders)
  => /\ res.statusCode = ServiceUnavailable
     /\ res.body = ErrorDoc(ErrNoProviders, "service_unavailable", "no_provider_available")
     /\ res.contentType = "application/json"
     /\ res.ended = 1
     /\ written = <<>>
     /\ calls[Len(calls)].op = "listService"
     /\ \A i \in 1..Len(calls) : calls[i].op \notin {"getRequestHeaders", "fetch"}
     /\ response = NoUpstream

\* a streaming request for "model-a" met an empty enumeration
C19_Witness ==
  /\ pc = "done"
  /\ exitPath = "catch"
  /\ req.stream
  /\ req.model = "model-a"
  /\ res.statusCode = ServiceUnavailable
  /\ res.body.message = ErrNoProviders

\* C20: the request sent upstream carries the canonical model id of the
\* resolved provider, whatever identifier (name or address) the client sent:
\* when fetch is called the request has been rewritten and encoded with
\* provider.model.
C20_UpstreamGetsCanonicalModel ==
  \A i \in 1..Len(calls) :
    calls[i].op = "fetch"
    => /\ provider # NoProvider
       /\ provider.model = ServiceMetadata(provider.address).model
       /\ calls[i].body.model = provider.model
       /\ req.model = provider.model
       /\ calls[1].op = "getProvider"
       /\ calls[1].arg # provider.model => calls[i].body.model # calls[1].arg
       /\ \E j \in 1..(i - 1) :
            calls[j].op = "getRequestHeaders" /\ calls[j].arg = provider.address
       /\ calls[i].arg = provider.endpoint

\* the client asked for the address "0xA"; the upstream is sent "model-a"
C20_Witness ==
  /\ Len(calls) >= 2
  /\ calls[1].arg = AddressA
  /\ calls[Len(calls)].op = "fetch"
  /\ calls[Len(calls)].body.model = "model-a"
  /\ providerCache.address = AddressA

\* the ProviderInfo the network publishes for the address
PublishedEntry(address) ==
  ProviderInfo(address, ServiceMetadata(address).endpoint, ServiceMetadata(address).model)

\* C21: the request headers are generated for the address of the ProviderInfo
\* resolved for the request, and the upstream call goes to the endpoint of
\* that same ProviderInfo, whatever other requests store in the shared cache
\* while the request is suspended: address and endpoint belong to one provider,
\* the one that matches the identifier the request asked for.
C21_AddressAndEndpointOfOneProvider ==
  \A i \in 1..Len(calls) :
    /\ calls[i].op = "getRequestHeaders"
       => /\ calls[i].arg = provider.address
          /\ provider = PublishedEntry(provider.address)
          /\ Matches(provider, calls[1].arg)
    /\ calls[i].op = "fetch"
       => /\ i > 1
          /\ calls[i - 1].op = "getRequestHeaders"
          /\ calls[i].arg = PublishedEntry(calls[i - 1].arg).endpoint
          /\ calls[i].arg = provider.endpoint

\* the upstream call went to provider A although another request has stored
\* provider B in the cache after this request resolved A
C21_Witness ==
  /\ Len(calls) >= 2
  /\ calls[Len(calls)].op = "fetch"
  /\ calls[Len(calls)].arg = "https://a.example"
  /\ provider.address = AddressA
  /\ providerCache.address = AddressB

\* C22: nothing is retried.  A request makes at most one call of getProvider,
\* one of getRequestHeaders and one upstream HTTP call; the step in which one
\* of them fails makes no call and finishes the request with the error
\* answer, and a finished request makes no further call.
C22_NoRetries ==
  /\ [](/\ CountCalls("getProvider") <= 1
        /\ CountCalls("getRequestHeaders") <= 1
        /\ CountCalls("fetch") <= 1
        /\ exitPath \in {"catch", "upstream_error"}
           => /\ pc = "done"
              /\ res.ended = 1
              /\ res.body.object = "error")
  /\ [][/\ exitPath' \in {"catch", "upstream_error"} => calls' = calls
        /\ pc = "done" => calls' = calls /\ pc' = "done"]_vars

\* the single upstream call failed and the request ended with the 500 answer
C22_Witness ==
  /\ exitPath = "catch"
  /\ calls # <<>>
  /\ calls[Len(calls)].op = "fetch"
  /\ CountCalls("fetch") = 1
  /\ res.statusCode = InternalServerError
  /\ res.ended = 1

\* C23: once the client has disconnected in mid-stream the read loop consumes
\* no further upstream chunk: the only step left to the handler is to finish.
\* The handler does not observe the disconnection, so this does not hold.
C23_StopsReadingOnDisconnect ==
  [][(res.closed /\ pc = "reading") => received' = received]_vars

\* zgToOpenAI was applied and returned a document
Decoded == translation.fn = "zgToOpenAI" /\ ~translation.output.threw

\* C24: zgToOpenAI probes the shapes in a fixed order: a non-empty choices
\* array, then a top-level `response` string, then a top-level `content`
\* string, then a raw string.  The first shape that matches gives the
\* content, and a payload that matches an earlier shape never has its content
\* taken from a later one.
C24_FirstMatchingShapeWins ==
  Decoded =>
    LET z == translation.input.zgResponse
        content == translation.output.doc.content
        fromChoices == z.choices = "object0"
        fromResponse == ~fromChoices /\ IsTruthy(z.response)
        fromContent == ~fromChoices /\ ~fromResponse /\ IsTruthy(z.content)
        fromString == ~fromChoices /\ ~fromResponse /\ ~fromContent /\ z.typeof = "string"
    IN  /\ fromChoices
           => /\ content \in {z.c0_message_content, z.c0_text, "", Null} \ {Undefined}
              /\ content \notin {"resp", "cont", "raw"}
        /\ fromResponse => content = z.response
        /\ fromContent => content = z.content
        /\ fromString => content = z.value
        /\ ~(fromChoices \/ fromResponse \/ fromContent \/ fromString) => content = ""

\* a payload with a message in choices, a `response` and a `content`: the
\* content decoded is the message's
C24_Witness ==
  /\ Decoded
  /\ translation.input.zgResponse.choices = "object0"
  /\ translation.input.zgResponse.c0_message_content = "hi"
  /\ translation.input.zgResponse.response = "resp"
  /\ translation.input.zgResponse.content = "cont"
  /\ translation.output.doc.content = "hi"

\* C25: the decoded content is null only when the message carries a
\* non-empty list of tool calls; with tool calls and an empty content it is
\* null, and otherwise it is a string.  An empty tool_calls array is truthy
\* in the code's test, so this does not hold.
C25_NullOnlyWithToolCalls ==
  Decoded =>
    LET z == translation.input.zgResponse
        doc == translation.output.doc
    IN  /\ doc.content = Null
           => /\ z.choices = "object0"
              /\ z.c0_tool_calls \notin {Undefined, NoToolCallsText}
              /\ doc.tool_calls = z.c0_tool_calls
        /\ (/\ z.choices = "object0"
            /\ z.c0_tool_calls \notin {Undefined, NoToolCallsText}
            /\ ~IsTruthy(z.c0_message_content)
            /\ ~IsTruthy(z.c0_text))
           => doc.content = Null
        /\ doc.content # Undefined

\* the least whole number of fours that covers n
CeilingOfQuarter(n) == CHOOSE k \in 0..n : 4 * k >= n /\ 4 * (k - 1) < n

\* the length of the contents joined by single spaces, a null content
\* counting as empty
RECURSIVE JoinedLength(_)
JoinedLength(items) ==
  IF items = <<>> THEN 0
  ELSE (IF Head(items).content = Null THEN 0 ELSE Len(Head(items).content))
       + (IF Len(items) > 1 THEN 1 + JoinedLength(Tail(items)) ELSE 0)

\* C26: prompt_tokens is ceil(L / 4) for L the length of the request's message
\* contents joined by a single space (null as empty); completion_tokens is
\* ceil(len(content) / 4), plus ceil(len(serialized tool calls) / 4) when tool
\* calls are present; total_tokens is their sum.  The content "hi" alone
\* estimates to 1.
C26_TokenEstimates ==
  Decoded =>
    LET doc == translation.output.doc
        contentLength == IF doc.content = Null THEN 0 ELSE Len(doc.content)
    IN  /\ doc.prompt_tokens
             = CeilingOfQuarter(JoinedLength(translation.input.requestMessages))
        /\ doc.completion_tokens
             = CeilingOfQuarter(contentLength)
               + (IF doc.tool_calls = Undefined THEN 0
                  ELSE CeilingOfQuarter(Len(doc.tool_calls)))
        /\ doc.total_tokens = doc.prompt_tokens + doc.completion_tokens
        /\ (doc.content = "hi" /\ doc.tool_calls = Undefined) => doc.completion_tokens = 1

\* "be brief" and "hi" joined are 11 characters, 3 tokens; the content "hi"
\* is 1 token
C26_Witness ==
  /\ Decoded
  /\ translation.input.requestMessages
       = <<Message("system", "be brief"), Message("user", "hi")>>
  /\ translation.output.doc.content = "hi"
  /\ translation.output.doc.tool_calls = Undefined
  /\ translation.output.doc.prompt_tokens = 3
  /\ translation.output.doc.completion_tokens = 1
  /\ translation.output.doc.total_tokens = 4

\* parseSSELine was applied to a line
ParsedLine == translation.fn = "parseSSELine"

\* C27: parseSSELine returns the terminal marker for the line `data: [DONE]`,
\* returns null, without raising, for a `data: ` line whose payload is not
\* valid JSON, and returns null for every line that does not begin with the
\* prefix `data: `.
C27_ParseLine ==
  ParsedLine =>
    LET line == translation.input
        out == translation.output
    IN  /\ line = <<DataDone>> => out = DoneMarker
        /\ line \in {<<DataNotJson>>, <<DataA, DataA>>, <<DataAHead>>, <<DataDone, ATail>>}
           => out = NullValue
        /\ (line = <<>> \/ line[1].pre # "data: ") => out = NullValue
        /\ out # NullValue => (line # <<>> /\ line[1].pre = "data: ")

\* the line `data: not-json` has been parsed: JSON.parse threw and the
\* result is null
C27_Witness ==
  /\ ParsedLine
  /\ translation.input = <<DataNotJson>>
  /\ JsonParse(DataNotJson.body).threw
  /\ translation.output = NullValue

\* the value read from a property of an object: undefined when it is not set
Field(object, name) == IF name \in DOMAIN object THEN object[name] ELSE Undefined

\* the optional fields of an OpenAIChatRequest and of a message
SamplingAndToolFields ==
  {"temperature", "max_tokens", "top_p", "frequency_penalty", "presence_penalty",
   "stop", "tools", "tool_choice"}
MessageToolFields == {"tool_calls", "tool_call_id", "name"}

\* C28: openAIToZG copies each optional field (the sampling parameters, tools,
\* tool_choice, and each message's tool_calls, tool_call_id and name) into
\* the encoded request exactly when the inbound request has it: an absent
\* field is omitted, a present field is carried unchanged, and the messages
\* keep their order.  The code copies temperature and max_tokens only of the
\* sampling parameters, so this does not hold.
C28_CopiesPresentFields ==
  translation.fn = "openAIToZG" =>
    LET in == translation.input
        out == translation.output
    IN  /\ \A f \in SamplingAndToolFields :
             /\ f \in DOMAIN out <=> in[f] # Undefined
             /\ Field(out, f) = in[f]
        /\ Len(out.messages) = Len(in.messages.items)
        /\ \A i \in 1..Len(out.messages) :
             /\ out.messages[i].role = in.messages.items[i].role
             /\ out.messages[i].content = in.messages.items[i].content
             /\ \A f \in MessageToolFields :
                  /\ f \in DOMAIN out.messages[i] <=> in.messages.items[i][f] # Undefined
                  /\ Field(out.messages[i], f) = in.messages.items[i][f]

\* the event before the j-th of `events` that belongs to the same caller, or 0
PreviousOfCaller(events, j) ==
  LET earlier == {i \in 1..(j - 1) : events[i].resolver = events[j].resolver}
  IN  IF earlier = {} THEN 0 ELSE CHOOSE i \in earlier : \A k \in earlier : k <= i

\* the j-th event follows, for its caller, an event of one of `kinds` for the
\* same address
Follows(events, j, kinds) ==
  LET i == PreviousOfCaller(events, j)
  IN  /\ i > 0
      /\ events[i].event \in kinds
      /\ events[i].id = events[j].id

\* C29: on a cache miss the external calls for the target address come in
\* the order userAcknowledged, acknowledgeProviderSigner (only when the query
\* answered false), getServiceMetadata, cache write.  acknowledgeProviderSigner
\* is never called after the query answered true, getServiceMetadata is never
\* called before the acknowledgment step has finished, and the cache is
\* written only in the step in which getServiceMetadata has succeeded.
C29_MissCallOrder ==
  /\ [](\A j \in 1..Len(trace) :
          /\ trace[j].event = "answer" => Follows(trace, j, {"userAcknowledged"})
          /\ trace[j].event = "acknowledgeProviderSigner"
             => /\ Follows(trace, j, {"answer"})
                /\ trace[PreviousOfCaller(trace, j)].value = FALSE
          /\ trace[j].event = "getServiceMetadata"
             => LET i == PreviousOfCaller(trace, j)
                IN  /\ Follows(trace, j, {"answer", "acknowledgeProviderSigner"})
                    /\ trace[i].event = "answer" => trace[i].value = TRUE)
  /\ [][providerCache' # providerCache
          => /\ Len(trace') = Len(trace) + 1
             /\ trace'[Len(trace')].event = "return"
             /\ trace'[Len(trace')].value = providerCache'
             /\ LET i == PreviousOfCaller(trace', Len(trace'))
                IN  /\ i > 0
                    /\ trace'[i].event = "getServiceMetadata"
                    /\ trace'[i].id = providerCache'.address]_vars

\* a miss for the unacknowledged address A: query, answer false, acknowledge,
\* metadata, and the cache written with the entry returned
C29_Witness ==
  /\ providerCache.address = AddressA
  /\ \E j \in 1..(Len(trace) - 4) :
       /\ \A k \in j..(j + 4) : trace[k].resolver = trace[j].resolver
       /\ trace[j].event = "userAcknowledged" /\ trace[j].id = AddressA
       /\ trace[j + 1].event = "answer" /\ trace[j + 1].value = FALSE
       /\ trace[j + 2].event = "acknowledgeProviderSigner" /\ trace[j + 2].id = AddressA
       /\ trace[j + 3].event = "getServiceMetadata" /\ trace[j + 3].id = AddressA
       /\ trace[j + 4].event = "return" /\ trace[j + 4].value = providerCache

\* the complete lines of a text, trimmed: what lies before each line feed
CompleteLines(text) ==
  LET pieces == Split(text)
  IN  [i \in 1..(Len(pieces) - 1) |-> Trim(pieces[i])]

\* C30: the read loop passes parseSSELine complete lines only.  A line cut
\* across chunks stays in the carry-over buffer, where nothing parses it, and
\* is parsed once, whole, in the step in which its line feed arrives; the
\* fragment after the last line feed is never parsed on its own.
C30_CompleteLinesOnly ==
  /\ [](/\ IsSubsequence(parsed, CompleteLines(received))
        /\ \A i \in 1..Len(buffer) : buffer[i] # LF
        /\ pc = "reading" => buffer = Split(received)[Len(Split(received))])
  /\ [][received' # received
          => LET chunk == SubSeq(received', Len(received) + 1, Len(received'))
                 lines == Split(buffer \o chunk)
                 first == Trim(lines[1])
             IN  /\ buffer' = lines[Len(lines)]
                 /\ Len(lines) = 1 => parsed' = parsed
                 /\ IsPrefix(parsed, parsed')
                 /\ (Len(lines) > 1 /\ first # <<>> /\ first[1].pre # ":")
                    => /\ Len(parsed') > Len(parsed)
                       /\ parsed'[Len(parsed) + 1] = first
                 /\ IsSubsequence(SubSeq(parsed', Len(parsed) + 1, Len(parsed')),
                                  CompleteLines(buffer \o chunk))]_vars

\* the data line of JsonA arrived in two halves and was parsed once as one
\* line; the half that follows it is held in the buffer, unparsed
C30_Witness ==
  /\ received = <<DataAHead, ATail, LF, DataAHead>>
  /\ parsed = <<<<DataAHead, ATail>>>>
  /\ buffer = <<DataAHead>>
  /\ Len(written) = 1
  /\ written[1].chunk.delta.content = "a"

\* zgStreamChunkToOpenAI was applied and returned a chunk
Translated == translation.fn = "zgStreamChunkToOpenAI" /\ ~translation.output.threw

\* C31: zgStreamChunkToOpenAI probes the shapes in a fixed order,
\* choices[0].delta, a top-level delta, a bare content field, a raw string;
\* the delta and the finish reason of the chunk come from the first shape
\* that matches and from no other, and the finish reason is null when that
\* shape reports none.
C31_FirstMatchingDeltaWins ==
  Translated =>
    LET z == translation.input
        out == translation.output.chunk
        fromChoices == z.choices = "object0"
        fromDelta == ~fromChoices /\ z.delta.present
        fromContent == ~fromChoices /\ ~fromDelta /\ z.content # Undefined
        fromString == ~fromChoices /\ ~fromDelta /\ ~fromContent /\ z.typeof = "string"
    IN  /\ fromChoices
           => /\ out.delta = IF z.c0_delta.present THEN z.c0_delta ELSE EmptyDelta
              /\ out.finish_reason
                   = IF z.c0_finish_reason = Undefined THEN Null ELSE z.c0_finish_reason
        /\ fromDelta
           => /\ out.delta = z.delta
              /\ out.finish_reason
                   = IF z.finish_reason = Undefined THEN Null ELSE z.finish_reason
        /\ fromContent
           => /\ out.delta = Delta(Undefined, z.content)
              /\ out.finish_reason = Null
        /\ fromString
           => /\ out.delta = Delta(Undefined, z.value)
              /\ out.finish_reason = Null
        /\ ~(fromChoices \/ fromDelta \/ fromContent \/ fromString)
           => /\ out.delta = EmptyDelta
              /\ out.finish_reason = Null

\* a frame with a delta in choices[0] and no finish reason there, and with a
\* top-level delta, finish reason and content: the chunk carries the delta
\* of the choice and a null finish reason
C31_Witness ==
  /\ Translated
  /\ translation.input.choices = "object0"
  /\ translation.input.c0_delta.content = "from-choice"
  /\ translation.input.c0_finish_reason = Undefined
  /\ translation.input.delta.content = "from-delta"
  /\ translation.input.finish_reason = "length"
  /\ translation.input.content = "bare"
  /\ translation.output.chunk.delta.content = "from-choice"
  /\ translation.output.chunk.finish_reason = Null

\* C32: the handler runs only for a request whose Authorization header is
\* exactly "Bearer " followed by AUTH_TOKEN.  A request with a missing or
\* malformed header or with another token is answered 401, once, and causes
\* no validation, no provider resolution, no cache change and no upstream
\* call.
C32_OnlyAuthorizedReachHandler ==
  /\ [](authorization # "Bearer " \o AuthToken
        => /\ pc \in {"idle", "done"}
           /\ exitPath \in {"none", "unauthorized"}
           /\ req = NoRequest
           /\ calls = <<>>
           /\ provider = NoProvider
           /\ written = <<>>
           /\ pc = "done"
              => /\ res.statusCode = Unauthorized
                 /\ res.body.object = "error"
                 /\ res.ended = 1)
  /\ [][authorization # "Bearer " \o AuthToken
          => /\ providerCache' = providerCache
             /\ acknowledged' = acknowledged]_vars

\* the header "Bearer wrong" has been answered 401 invalid_token, nothing else
\* having happened
C32_Witness ==
  /\ authorization = "Bearer wrong"
  /\ pc = "done"
  /\ res.statusCode = Unauthorized
  /\ res.body.code = "invalid_token"
  /\ calls = <<>>

\* C33 (as claimed): for a fixed upstream byte stream the frames written to
\* the client are the same for every way of splitting the stream into read
\* chunks: what has been written is what one read of everything received so
\* far writes, and a completed stream adds the final marker to it.
C33_SplitIndependent ==
  LET whole == OnChunk(<<>>, received, provider.model).writes
  IN  /\ pc = "reading" => written = whole
      /\ exitPath = "stream_end" => written = Append(whole, FormatSSEDone)

\* the trimmed line is a data line whose payload is the literal [DONE]
IsLiteralDone(line) == line = <<DataDone>>

\* the trimmed line is a data line whose payload is a JSON object
IsJsonLine(line) ==
  /\ line[1].pre = "data: "
  /\ ~IsLiteralDone(line)
  /\ ~JsonParse(PayloadText(<<[pre |-> "", body |-> line[1].body]>> \o Tail(line))).threw

\* C34 (as claimed): a line is the terminal marker only when its payload is
\* the literal [DONE].  The read loop writes a marker for each such line it
\* parses and for no other line (the completed stream adds the final one),
\* and it writes a data frame for each parsed line whose payload is valid
\* JSON, whatever fields the object has, a truthy done field included.
C34_MarkerOnlyForLiteralDone ==
  LET markers == {i \in 1..Len(parsed) : IsLiteralDone(parsed[i])}
      objects == {i \in 1..Len(parsed) : IsJsonLine(parsed[i])}
  IN  /\ CountDone = Cardinality(markers) + (IF exitPath = "stream_end" THEN 1 ELSE 0)
      /\ Len(SelectChunkFrames(written)) = Cardinality(objects)

\* C35 (as claimed): when a model name is resolved twice in succession and
\* the first resolution succeeded, the second is served from the cache: it
\* returns at once what the first returned and calls neither listService nor
\* the acknowledgment capabilities nor getServiceMetadata, whatever model id
\* the metadata reported for the selected provider.
C35_SameNameServedFromCache ==
  \A i, j \in 1..Len(trace) :
    ( /\ Successive(i, j)
      /\ ~IsAddress(trace[i].id)
      /\ trace[j].id = trace[i].id )
    => /\ j + 1 <= Len(trace)
       /\ trace[j + 1].event = "return"
       /\ trace[j + 1].resolver = trace[j].resolver
       /\ trace[j + 1].value = trace[j - 1].value
       /\ \A k \in (j + 1)..Len(trace) :
            trace[k].resolver = trace[j].resolver
            => trace[k].event \notin {"listService", "userAcknowledged",
                                      "acknowledgeProviderSigner", "getServiceMetadata"}

C37_FinalLineForwarded ==
  LET last == Trim(buffer)
  IN  (exitPath = "stream_end" /\ last # <<>> /\ IsJsonLine(last))
      => /\ Len(parsed) > 0 /\ parsed[Len(parsed)] = last
         /\ Len(written) >= 2
         /\ IsChunkFrame(written[Len(written) - 1])
         /\ written[Len(written)] = FormatSSEDone

\* C38: when the upstream call of a streaming request succeeds but has no
\* response body, the client receives exactly two frames, a closing frame
\* with an empty delta and finish_reason "error" and then the terminal marker,
\* and the response is ended; nothing else is written and no document sent.
C38_NullBodyClosesStream ==
  /\ (pc = "done" /\ req.stream /\ response # NoUpstream /\ Ok(response)
        /\ ~response.hasBody)
     => exitPath = "null_body"
  /\ exitPath = "null_body"
     => /\ pc = "done"
        /\ Len(written) = 2
        /\ IsChunkFrame(written[1])
        /\ written[1].chunk.delta = EmptyDelta
        /\ written[1].chunk.finish_reason = "error"
        /\ written[1].chunk.model = provider.model
        /\ written[2] = FormatSSEDone
        /\ res.ended = 1
        /\ res.body = NoBody
        /\ res.statusCode = 200
        /\ received = <<>>

\* a streaming request answered 200 without a body has been closed
C38_Witness ==
  /\ exitPath = "null_body"
  /\ req.stream
  /\ response.status = 200
  /\ ~response.hasBody
  /\ Len(written) = 2
  /\ written[1].chunk.finish_reason = "error"
  /\ res.ended = 1

====
